---- MODULE Spec2Model ----
(***************************************************************************)
(* A model of connvitals: the per-host Collector process (collector.py),   *)
(* the probes it runs on its thread pool (ping.py, traceroute.py,          *)
(* ports.py) and the driver that starts and joins the Collectors           *)
(* (__init__.py).  Functions that are claimed about alone (Pinger.recv,    *)
(* the checksum, the echo codec, the two route tracers and their packet    *)
(* tests) are called once on each of a bounded set of inputs, and main is  *)
(* also followed from its first line up to the list of Collectors.         *)
(*                                                                         *)
(* Python floats are exact rationals <<numerator, denominator>> in lowest  *)
(* terms with a positive denominator; math.sqrt rounds down to a multiple  *)
(* of 1/Prec.  Python's None and the typed results are records carrying a  *)
(* type field.  An exception that leaves a function is a record            *)
(* [exc |-> name, ...] returned in place of its value.                     *)
(***************************************************************************)
EXTENDS Integers, Sequences, FiniteSets, TLC

\* ------------------------------------------------------------------ bounds
\* hosts given to the driver in the many-host specification
NumHosts == 2
\* largest NUMPINGS when every toggle varies (config.py:35 defaults to 10)
MaxPings == 2
\* largest NUMPINGS of the ping-only runs
MaxRound == 3
\* largest HOPS (config.py:29 sets the default, 30)
MaxHops == 2
\* packets read by one Pinger.recv before its socket times out
MaxFeed == 3
\* bytes of a buffer given to the ICMPv4 checksum
MaxBuf == 7
\* bytes of the payload of an echo request
MaxPayload == 2
\* names on the command line
MaxNames == 2
\* math.sqrt is computed to 1/Prec
Prec == 100

\* ------------------------------------------------------------- rationals
RECURSIVE GCD(_, _)
GCD(a, b) == IF b = 0 THEN a ELSE GCD(b, a % b)

Abs(x) == IF x < 0 THEN -x ELSE x

\* the float n/d  (d # 0)
Rat(n, d) ==
  LET g == GCD(Abs(n), Abs(d))
      s == IF d < 0 THEN -1 ELSE 1
  IN  << (s * n) \div g, (s * d) \div g >>

R(n) == << n, 1 >>

RAdd(a, b) == Rat(a[1] * b[2] + b[1] * a[2], a[2] * b[2])
RSub(a, b) == Rat(a[1] * b[2] - b[1] * a[2], a[2] * b[2])
RMul(a, b) == Rat(a[1] * b[1], a[2] * b[2])
\* a / b for b # 0
RDiv(a, b) == Rat(a[1] * b[2], a[2] * b[1])
RLt(a, b) == a[1] * b[2] < b[1] * a[2]
RLe(a, b) == a[1] * b[2] <= b[1] * a[2]

\* floor of the square root of a natural number
RECURSIVE ISqrt(_)
ISqrt(n) ==
  IF n < 2 THEN n
  ELSE LET s == 2 * ISqrt(n \div 4)
       IN  IF (s + 1) * (s + 1) <= n THEN s + 1 ELSE s

\* math.sqrt(q) for q >= 0, rounded down to a multiple of 1/Prec
RSqrt(q) == Rat(ISqrt((q[1] * Prec * Prec) \div q[2]), Prec)

\* ------------------------------------------------------------ data model
\* Python's None
None == [type |-> "None"]

\* utils.PingResult
PingResult(minimum, avg, maximum, std, loss) ==
  [type |-> "PingResult", minimum |-> minimum, avg |-> avg,
   maximum |-> maximum, std |-> std, loss |-> loss]

\* utils.TraceStep
TraceStep(host, rtt) == [host |-> host, rtt |-> rtt]

\* utils.Trace, a list of steps
Trace(steps) == [type |-> "Trace", steps |-> steps]

\* utils.ScanResult
ScanResult(httpresult, httpsresult, mysqlresult) ==
  [type |-> "ScanResult", httpresult |-> httpresult,
   httpsresult |-> httpsresult, mysqlresult |-> mysqlresult]

\* length of the all-'*' trace of Collector.result
SentinelHops == 10

\* the class attribute Collector.result: the three sentinels
CollectorResult ==
  << PingResult(R(-1), R(-1), R(-1), R(-1), R(100)),
     Trace([i \in 1..SentinelHops |-> TraceStep("*", R(-1))]),
     ScanResult(None, None, None) >>

\* a call that returned v / a call that raised e
Ok(v) == [exc |-> "none", val |-> v]
Raise(e) == [exc |-> e, val |-> None]

\* ------------------------------------------------------------ environment
\* addresses of the hosts, by position in the driver's list
Addr == << "10.0.0.1", "10.0.0.2", "10.0.0.3", "10.0.0.4" >>
\* an intermediate hop
Router == "192.168.0.1"

\* round-trip delays the network can show, in milliseconds
Delays == {10, 20, 30}
TraceDelays == {5}

\* what one call pinger.ping(seqno) meets: the send fails, no reply is
\* read before the socket times out, or a reply is read after a delay
NetOutcomes ==
  {[kind |-> "unreachable", delay |-> 0], [kind |-> "timeout", delay |-> 0]}
  \cup {[kind |-> "reply", delay |-> d] : d \in Delays}

\* ------------------------------------------------------------ Echo Prober
\* Pinger.recv: -1 on socket.timeout, else time.time() - timestamps[seqno],
\* in seconds
PingerRecv(o) ==
  IF o.kind = "timeout" THEN R(-1) ELSE Rat(o.delay, 1000)

\* Pinger.ping(seqno): a failed sendto is re-raised as Exception
PingerPing(o) ==
  IF o.kind = "unreachable" THEN Raise("Exception") ELSE Ok(PingerRecv(o))

RECURSIVE Sum(_)
\* sum(rtt)
Sum(rtt) == IF rtt = << >> THEN R(0) ELSE RAdd(Head(rtt), Sum(Tail(rtt)))

\* min(rtt), max(rtt) of a non-empty list
Min(rtt) ==
  CHOOSE x \in {rtt[i] : i \in DOMAIN rtt} : \A j \in DOMAIN rtt : RLe(x, rtt[j])
Max(rtt) ==
  CHOOSE x \in {rtt[i] : i \in DOMAIN rtt} : \A j \in DOMAIN rtt : RLe(rtt[j], x)

\* the test of collector.py:102 (Pinger.ping returns a float, never None)
IsReply(pkt) == RLt(R(0), pkt)

RECURSIVE Rtts(_)
\* the list rtt after the loop of collector.py:101-105
Rtts(pkts) ==
  IF pkts = << >> THEN << >>
  ELSE IF IsReply(Head(pkts))
       THEN << RMul(Head(pkts), R(1000)) >> \o Rtts(Tail(pkts))
       ELSE Rtts(Tail(pkts))

\* (mutant) lost = 1 in place of lost += 1
LostOnce(pkts) == IF \E i \in DOMAIN pkts : ~IsReply(pkts[i]) THEN 1 ELSE 0

\* the counter lost after the loop of collector.py:101-105
Lost(pkts) == Cardinality({i \in DOMAIN pkts : ~IsReply(pkts[i])})

\* avg = sum(rtt) / len(rtt), for a non-empty rtt
Avg(rtt) == RDiv(Sum(rtt), R(Len(rtt)))

RECURSIVE SumSqDev(_, _)
\* std after the loop of collector.py:110-111
SumSqDev(avg, rtt) ==
  IF rtt = << >> THEN R(0)
  ELSE LET d == RSub(avg, Head(rtt))
       IN  RAdd(RMul(d, d), SumSqDev(avg, Tail(rtt)))

\* (mutant) the population deviation: n in place of n - 1
StdDivisorN(rtt) == Len(rtt)

\* the divisor of collector.py:112
StdDivisor(rtt) == Len(rtt) - 1

\* (mutant) the handler stores the sentinel's -1
StdOnZeroDivisionNeg == R(-1)

\* std when ZeroDivisionError is caught, collector.py:115
StdOnZeroDivision == R(0)

\* std as the try statement of collector.py:107-115 leaves it: either
\* division by zero (an empty rtt at line 108, one sample at line 112)
\* ends in the handler
Std(rtt) ==
  IF Len(rtt) = 0 \/ StdDivisor(rtt) = 0 THEN StdOnZeroDivision
  ELSE RSqrt(RDiv(SumSqDev(Avg(rtt), rtt), R(StdDivisor(rtt))))

\* loss of collector.py:117
LossPercent(lost, numpings) == RMul(RDiv(R(lost), R(numpings)), R(100))

\* (mutant) min and max guarded against an empty rtt, so that a round with
\* no reply stores zeros in place of raising ValueError
CollectorPingStatsZeros(pkts, numpings) ==
  LET rtt == Rtts(pkts)
  IN  IF rtt = << >>
      THEN Ok(PingResult(R(0), R(0), R(0), R(0),
                         LossPercent(Lost(pkts), numpings)))
      ELSE Ok(PingResult(Min(rtt), Avg(rtt), Max(rtt), Std(rtt),
                         LossPercent(Lost(pkts), numpings)))

\* Collector.ping from line 101 on, given the list pkts that results.get
\* returned: the PingResult stored in self.result[0], or the ValueError
\* of min() on an empty rtt (the first argument evaluated at line 117)
CollectorPingStats(pkts, numpings) ==
  LET rtt == Rtts(pkts)
  IN  IF rtt = << >> THEN Raise("ValueError")
      ELSE Ok(PingResult(Min(rtt), Avg(rtt), Max(rtt), Std(rtt),
                         LossPercent(Lost(pkts), numpings)))

\* ------------------------------------------------------------ the state
VARIABLES
  conf,        \* config.Config: NOPING, TRACE, PORTSCAN, NUMPINGS, HOPS
  collectors,  \* main: the list of Collectors, one per host
  mainPc,      \* main: "start", "join", "recv" or "done"
  mainI,       \* main: index into collectors of the running loop
  printed,     \* main: the lines printed, each a host and its result
  cpc,         \* per Collector: where its run() is
  result,      \* per Collector process: the list Collector.result
  pipe,        \* per Collector: the messages in its Pipe
  sent,        \* per Collector: how many times run() has sent on the pipe
  pings,       \* per Collector: the calls of map_async(pinger.ping, ...)
  traceTask,   \* per Collector: the task apply_async(traceroute.trace, ...)
  scanTask,    \* per Collector: the task apply_async(ports.portScan, ...)
  settled,     \* per Collector: how run() settled each of result[0..2]
  proc,        \* the process of main: privilege, arguments, CONFIG.HOSTS,
               \* the lines on stderr and the exit status
  call,        \* one call of a function taken alone: its name, its
               \* arguments and, once it has returned, what it returned
  pool         \* the ThreadPool of one Collector.run taken alone: its
               \* worker threads, its tasks and the Pinger they share

vars == << conf, collectors, mainPc, mainI, printed, cpc, result, pipe,
           sent, pings, traceTask, scanTask, settled, proc, call, pool >>

\* what the steps of the Collectors and of main's loop leave alone
aside == << proc, call, pool >>

Hosts == DOMAIN collectors

\* run() has ended: it returned, or an exception left it
Terminated == {"done", "dead"}

\* a task of the pool: not submitted, running, returned val, or raised
NoTask == [st |-> "none", val |-> None]
Running(v) == [st |-> "run", val |-> v]
Returned(v) == [st |-> "ret", val |-> v]
Raised(v) == [st |-> "raised", val |-> v]

\* one call pinger.ping(seqno) of the map: pending, returned ret, raised
PendingPing == [st |-> "pending", ret |-> R(0)]

\* the names on the command line: two that resolve, one that does not
Names == << "a.example", "b.example", "c.example", "d.example" >>
Unresolvable == "nx.invalid"

\* the exit status of a process still running
StillRunning == [type |-> "None"]

\* the process of main once config.init() has parsed n names that resolve
ProcAfterInit(n) ==
  [perm |-> TRUE, version |-> FALSE, args |-> [i \in 1..n |-> Names[i]],
   hosts |-> [i \in 1..n |-> Names[i]], stderr |-> << >>,
   stdout |-> << >>, exit |-> StillRunning]

\* no function is being called alone
NoCall == [fn |-> "none", arg |-> None, ret |-> None, done |-> FALSE]

\* the program as main finds it after config.init(), with n hosts and the
\* toggles, ping count and hop limit among the given ones
InitWith(n, noping, trace, portscan, numpings, hops) ==
  /\ proc = ProcAfterInit(n)
  /\ call = NoCall
  /\ pool = None
  /\ conf \in [NOPING : noping, TRACE : trace, PORTSCAN : portscan,
               NUMPINGS : numpings, HOPS : hops]
  /\ collectors = [i \in 1..n |-> i]
  /\ mainPc = "start"
  /\ mainI = 1
  /\ printed = << >>
  /\ cpc = [h \in 1..n |-> "idle"]
  /\ result = [h \in 1..n |-> CollectorResult]
  /\ pipe = [h \in 1..n |-> << >>]
  /\ sent = [h \in 1..n |-> 0]
  /\ pings = [h \in 1..n |-> << >>]
  /\ traceTask = [h \in 1..n |-> NoTask]
  /\ scanTask = [h \in 1..n |-> NoTask]
  /\ settled = [h \in 1..n |-> << "unset", "unset", "unset" >>]



\* ----------------------------------------------------------- Route Tracer
\* what the network does to the probe of one TTL: the send fails, nothing
\* qualifying arrives in time, a hop or the target answers, or a response
\* is too short for getID (x[50], x[51])
TraceOutcomes(h) ==
  {[kind |-> k, addr |-> "*", delay |-> 0] :
     k \in {"sendfail", "timeout", "short"}}
  \cup {[kind |-> "reply", addr |-> a, delay |-> d] :
          a \in {Router, Addr[h]}, d \in TraceDelays}

\* the step traceroute.trace appends for one TTL
TraceHop(o) ==
  IF o.kind = "reply"
  THEN TraceStep(o.addr, RMul(Rat(o.delay, 1000), R(1000)))
  ELSE TraceStep("*", R(-1))

\* mutant of TraceIteration: the loop does not stop at the target
TraceIterationNoStop(ret, o, addr, hops) ==
  IF o.kind = "short" THEN Raised(Trace(ret))
  ELSE IF Len(ret) + 1 >= hops THEN Returned(Trace(Append(ret, TraceHop(o))))
  ELSE Running(Trace(Append(ret, TraceHop(o))))

\* one iteration of the loop of traceroute.trace on the list ret: the task
\* after it, still running or returned
TraceIteration(ret, o, addr, hops) ==
  LET new == Append(ret, TraceHop(o))
      done == o.kind = "reply" /\ o.addr = addr
  IN  IF o.kind = "short" THEN Raised(Trace(ret))
      ELSE IF done \/ Len(new) >= hops THEN Returned(Trace(new))
      ELSE Running(Trace(new))

\* -------------------------------------------------------- Service Scanner
\* what a service port does to a probe
\* ("noserver": a response without a Server header)
PortOutcomes == {"refused", "empty", "ok", "undecodable", "noserver"}

\* the hosts scanned: what ports 80, 443 and 3306 of a host do
HostServices ==
  { << "refused", "refused", "refused" >>, << "ok", "refused", "refused" >>,
    << "ok", "empty", "ok" >>, << "ok", "undecodable", "refused" >>,
    << "refused", "refused", "undecodable" >>,
    << "noserver", "noserver", "refused" >> }

\* ports.http(url, port)
Http(o) ==
  CASE o = "refused" -> Ok(None)
    [] o = "empty" -> Ok(None)
    [] o = "undecodable" -> Raise("UnicodeDecodeError")
    [] o = "noserver" -> Ok([type |-> "tuple", rtt |-> R(4), status |-> "200",
                             server |-> "Unkown"])
    [] OTHER -> Ok([type |-> "tuple", rtt |-> R(4), status |-> "200",
                    server |-> "nginx"])

\* ports.mysql(url): whatever was read is cut to its bytes 5 to 9 and
\* decoded, nothing read giving the empty version; a failed connect and a
\* failed decode both end in the one handler that returns None
Mysql(o) ==
  CASE o = "ok" -> Ok([type |-> "tuple", rtt |-> R(4), status |-> "5.7.1"])
    [] o = "empty" -> Ok([type |-> "tuple", rtt |-> R(4), status |-> ""])
    [] o = "noserver" ->
         Ok([type |-> "tuple", rtt |-> R(4), status |-> "/1.1 "])
    [] OTHER -> Ok(None)

\* ports.portScan: the three sub-probes are collected in order and the
\* first one that raised is re-raised by its get()
PortScan(oHttp, oHttps, oMysql) ==
  LET hypertext == Http(oHttp)
      https == Http(oHttps)
      mysqlserver == Mysql(oMysql)
  IN  IF hypertext.exc # "none" THEN Raised(None)
      ELSE IF https.exc # "none" THEN Raised(None)
      ELSE IF mysqlserver.exc # "none" THEN Raised(None)
      ELSE Returned(ScanResult(hypertext.val, https.val, mysqlserver.val))

\* ------------------------------------------------------ the pool's tasks
\* a worker thread runs pinger.ping(seqno) for one item of the map
PingTask(h, seqno) ==
  /\ cpc[h] \notin Terminated
  /\ seqno \in DOMAIN pings[h]
  /\ pings[h][seqno].st = "pending"
  /\ \E o \in NetOutcomes :
       LET r == PingerPing(o)
       IN  pings' = [pings EXCEPT ![h][seqno] =
                       IF r.exc = "none" THEN [st |-> "ret", ret |-> r.val]
                       ELSE [st |-> "raised", ret |-> R(0)]]
  /\ UNCHANGED << aside, conf, collectors, mainPc, mainI, printed, cpc, result,
                  pipe, sent, traceTask, scanTask, settled >>

\* a worker thread runs one TTL of traceroute.trace (or, with HOPS = 0,
\* finds the loop empty and returns)
TraceTask(h) ==
  /\ cpc[h] \notin Terminated
  /\ traceTask[h].st = "run"
  /\ IF conf.HOPS <= 0
     THEN traceTask' = [traceTask EXCEPT ![h] = Returned(traceTask[h].val)]
     ELSE \E o \in TraceOutcomes(h) :
            traceTask' = [traceTask EXCEPT ![h] =
              TraceIteration(traceTask[h].val.steps, o, Addr[h], conf.HOPS)]
  /\ UNCHANGED << aside, conf, collectors, mainPc, mainI, printed, cpc, result,
                  pipe, sent, pings, scanTask, settled >>

\* a worker thread runs ports.portScan to its end
ScanTask(h) ==
  /\ cpc[h] \notin Terminated
  /\ scanTask[h].st = "run"
  /\ \E o \in HostServices :
       scanTask' = [scanTask EXCEPT ![h] = PortScan(o[1], o[2], o[3])]
  /\ UNCHANGED << aside, conf, collectors, mainPc, mainI, printed, cpc, result,
                  pipe, sent, pings, traceTask, settled >>

\* ---------------------------------------------------------- Collector.run
\* (mutant) an index slip in the handler of the trace's TimeoutError
TraceOnTimeoutSlip(res) == res[3]

\* (mutant) a disabled ping stores the sentinel, as a timed-out one does
PingDisabledSentinel == CollectorResult[1]

\* what self.result[i] becomes when the wait for probe i times out (or, for
\* the ping, raises ValueError): type(self).result[i], an element of the
\* very list self.result that run() assigns to
PingOnTimeout(res) == res[1]
TraceOnTimeout(res) == res[2]
ScanOnTimeout(res) == res[3]

\* what self.result[i] becomes when probe i is disabled
PingDisabled == None
TraceDisabled == None
ScanDisabled == None

\* collector.py:48-57: open the pool, submit the port scan and the trace
CollectorRunSubmit(h) ==
  /\ cpc[h] = "begin"
  /\ scanTask' = [scanTask EXCEPT ![h] =
                    IF conf.PORTSCAN THEN Running(None) ELSE NoTask]
  /\ traceTask' = [traceTask EXCEPT ![h] =
                     IF conf.TRACE THEN Running(Trace(<< >>)) ELSE NoTask]
  /\ cpc' = [cpc EXCEPT ![h] = "ping"]
  /\ UNCHANGED << aside, conf, collectors, mainPc, mainI, printed, result, pipe,
                  sent, pings, settled >>

\* collector.py:58-60 and 88-96: with ping enabled, Collector.ping builds
\* the Pinger and maps pinger.ping over range(NUMPINGS)
CollectorPingSubmit(h) ==
  /\ cpc[h] = "ping"
  /\ ~conf.NOPING
  /\ pings' = [pings EXCEPT ![h] = [i \in 1..conf.NUMPINGS |-> PendingPing]]
  /\ cpc' = [cpc EXCEPT ![h] = "pingget"]
  /\ UNCHANGED << aside, conf, collectors, mainPc, mainI, printed, result, pipe,
                  sent, traceTask, scanTask, settled >>

\* collector.py:63-64: ping disabled
CollectorNoPing(h) ==
  /\ cpc[h] = "ping"
  /\ conf.NOPING
  /\ result' = [result EXCEPT ![h][1] = PingDisabled]
  /\ settled' = [settled EXCEPT ![h][1] = "disabled"]
  /\ cpc' = [cpc EXCEPT ![h] = "trace"]
  /\ UNCHANGED << aside, conf, collectors, mainPc, mainI, printed, pipe, sent,
                  pings, traceTask, scanTask >>

\* the calls of the map that have returned, in order
Pkts(ps) == [i \in DOMAIN ps |-> ps[i].ret]

\* collector.py:97, results.get(8), ends in multiprocessing.TimeoutError
\* while a call is pending; run() catches it at line 61
CollectorPingTimeout(h) ==
  /\ cpc[h] = "pingget"
  /\ \E i \in DOMAIN pings[h] : pings[h][i].st = "pending"
  /\ result' = [result EXCEPT ![h][1] = PingOnTimeout(result[h])]
  /\ settled' = [settled EXCEPT ![h][1] = "timeout"]
  /\ cpc' = [cpc EXCEPT ![h] = "trace"]
  /\ UNCHANGED << aside, conf, collectors, mainPc, mainI, printed, pipe, sent,
                  pings, traceTask, scanTask >>

\* collector.py:97, results.get(8), re-raises the Exception of a call that
\* raised; neither Collector.ping nor run() catches it, and run() ends
CollectorPingRaise(h) ==
  /\ cpc[h] = "pingget"
  /\ \E i \in DOMAIN pings[h] : pings[h][i].st = "raised"
  /\ cpc' = [cpc EXCEPT ![h] = "dead"]
  /\ UNCHANGED << aside, conf, collectors, mainPc, mainI, printed, result, pipe,
                  sent, pings, traceTask, scanTask, settled >>

\* collector.py:97-117, results.get(8) returns the list and the statistics
\* are stored; the ValueError of an empty rtt is caught at line 61
CollectorPingGet(h) ==
  /\ cpc[h] = "pingget"
  /\ \A i \in DOMAIN pings[h] : pings[h][i].st = "ret"
  /\ LET r == CollectorPingStats(Pkts(pings[h]), conf.NUMPINGS)
     IN  /\ result' = [result EXCEPT ![h][1] =
                         IF r.exc = "none" THEN r.val
                         ELSE PingOnTimeout(result[h])]
         /\ settled' = [settled EXCEPT ![h][1] =
                          IF r.exc = "none" THEN "value" ELSE r.exc]
  /\ cpc' = [cpc EXCEPT ![h] = "trace"]
  /\ UNCHANGED << aside, conf, collectors, mainPc, mainI, printed, pipe, sent,
                  pings, traceTask, scanTask >>

\* collector.py:66-72: the trace is collected, replaced by the sentinel on
\* TimeoutError, or set to None when disabled; any other exception of the
\* task is re-raised by get() and ends run()
CollectorTraceGet(h) ==
  /\ cpc[h] = "trace"
  /\ \/ /\ ~conf.TRACE
        /\ result' = [result EXCEPT ![h][2] = TraceDisabled]
        /\ settled' = [settled EXCEPT ![h][2] = "disabled"]
        /\ cpc' = [cpc EXCEPT ![h] = "scan"]
     \/ /\ conf.TRACE
        /\ traceTask[h].st = "ret"
        /\ result' = [result EXCEPT ![h][2] = traceTask[h].val]
        /\ settled' = [settled EXCEPT ![h][2] = "value"]
        /\ cpc' = [cpc EXCEPT ![h] = "scan"]
     \/ /\ conf.TRACE
        /\ traceTask[h].st = "run"
        /\ result' = [result EXCEPT ![h][2] = TraceOnTimeout(result[h])]
        /\ settled' = [settled EXCEPT ![h][2] = "timeout"]
        /\ cpc' = [cpc EXCEPT ![h] = "scan"]
     \/ /\ conf.TRACE
        /\ traceTask[h].st = "raised"
        /\ cpc' = [cpc EXCEPT ![h] = "dead"]
        /\ UNCHANGED << result, settled >>
  /\ UNCHANGED << aside, conf, collectors, mainPc, mainI, printed, pipe, sent,
                  pings, traceTask, scanTask >>

\* collector.py:82: self.pipe[1].send(self.result)
Send(p, res) == Append(p, res)

\* collector.py:74-82: the scan is collected, replaced by the sentinel on
\* TimeoutError, or set to None when disabled, and the result is sent; any
\* other exception of the task is re-raised by get() and ends run()
CollectorScanGet(h) ==
  /\ cpc[h] = "scan"
  /\ \/ /\ ~conf.PORTSCAN
        /\ result' = [result EXCEPT ![h][3] = ScanDisabled]
        /\ settled' = [settled EXCEPT ![h][3] = "disabled"]
        /\ cpc' = [cpc EXCEPT ![h] = "done"]
     \/ /\ conf.PORTSCAN
        /\ scanTask[h].st = "ret"
        /\ result' = [result EXCEPT ![h][3] = scanTask[h].val]
        /\ settled' = [settled EXCEPT ![h][3] = "value"]
        /\ cpc' = [cpc EXCEPT ![h] = "done"]
     \/ /\ conf.PORTSCAN
        /\ scanTask[h].st = "run"
        /\ result' = [result EXCEPT ![h][3] = ScanOnTimeout(result[h])]
        /\ settled' = [settled EXCEPT ![h][3] = "timeout"]
        /\ cpc' = [cpc EXCEPT ![h] = "done"]
     \/ /\ conf.PORTSCAN
        /\ scanTask[h].st = "raised"
        /\ cpc' = [cpc EXCEPT ![h] = "dead"]
        /\ UNCHANGED << result, settled >>
  /\ pipe' = [pipe EXCEPT ![h] =
                IF cpc'[h] = "done" THEN Send(pipe[h], result'[h]) ELSE @]
  /\ sent' = [sent EXCEPT ![h] = IF cpc'[h] = "done" THEN @ + 1 ELSE @]
  /\ UNCHANGED << aside, conf, collectors, mainPc, mainI, printed, pings,
                  traceTask, scanTask >>

\* ------------------------------------------------------------------ main
\* mutant of MainStart: main waits as soon as one Collector is started
MainStartThenWait ==
  /\ mainPc = "start"
  /\ cpc' = [cpc EXCEPT ![collectors[mainI]] = "begin"]
  /\ mainI' = mainI
  /\ mainPc' = "join"
  /\ UNCHANGED << aside, conf, collectors, printed, result, pipe, sent, pings,
                  traceTask, scanTask, settled >>

\* __init__.py:67-68: start the next Collector; after the last, go on to
\* the join loop
MainStart ==
  /\ mainPc = "start"
  /\ cpc' = [cpc EXCEPT ![collectors[mainI]] = "begin"]
  /\ IF mainI < Len(collectors)
     THEN mainI' = mainI + 1 /\ mainPc' = "start"
     ELSE mainI' = 1 /\ mainPc' = "join"
  /\ UNCHANGED << aside, conf, collectors, printed, result, pipe, sent, pings,
                  traceTask, scanTask, settled >>

\* __init__.py:74 and 81: collect.join() returns once the process has ended
MainJoin ==
  /\ mainPc = "join"
  /\ cpc[collectors[mainI]] \in Terminated
  /\ mainPc' = "recv"
  /\ UNCHANGED << aside, conf, collectors, mainI, printed, cpc, result, pipe, sent,
                  pings, traceTask, scanTask, settled >>

\* __init__.py:75-76 and 82-83: collect.recv() returns a message of the pipe
\* and the Collector is printed; then the next Collector, or return 0
MainRecv ==
  /\ mainPc = "recv"
  /\ pipe[collectors[mainI]] # << >>
  /\ printed' = Append(printed, [host |-> collectors[mainI],
                                 result |-> Head(pipe[collectors[mainI]])])
  /\ pipe' = [pipe EXCEPT ![collectors[mainI]] = Tail(@)]
  /\ IF mainI < Len(collectors)
     THEN mainI' = mainI + 1 /\ mainPc' = "join"
     ELSE mainI' = mainI /\ mainPc' = "done"
  /\ UNCHANGED << aside, conf, collectors, cpc, result, sent, pings, traceTask,
                  scanTask, settled >>

\* ------------------------------------------------------- specifications
\* the steps of a run with ping enabled and neither trace nor port scan
\* (the defaults of config.py:32-34)
NextPing ==
  \/ MainStart
  \/ MainJoin
  \/ MainRecv
  \/ \E h \in Hosts : CollectorRunSubmit(h)
  \/ \E h \in Hosts : CollectorPingSubmit(h)
  \/ \E h \in Hosts : CollectorPingTimeout(h)
  \/ \E h \in Hosts : CollectorPingRaise(h)
  \/ \E h \in Hosts : CollectorPingGet(h)
  \/ \E h \in Hosts : CollectorTraceGet(h)
  \/ \E h \in Hosts : CollectorScanGet(h)
  \/ \E h \in Hosts, seqno \in 1..conf.NUMPINGS : PingTask(h, seqno)

Next ==
  \/ NextPing
  \/ \E h \in Hosts : CollectorNoPing(h)
  \/ \E h \in Hosts : TraceTask(h)
  \/ \E h \in Hosts : ScanTask(h)

\* one host, every combination of the toggles
Init == InitWith(1, BOOLEAN, BOOLEAN, BOOLEAN, 0..MaxPings, 0..MaxHops)

Spec == Init /\ [][Next]_vars

\* one host, the default toggles, rounds of up to MaxRound echo requests
InitPing == InitWith(1, {FALSE}, {FALSE}, {FALSE}, 1..MaxRound, {0})

PingSpec == InitPing /\ [][NextPing]_vars

\* NumHosts hosts, the default toggles, one echo request each
InitHosts == InitWith(NumHosts, {FALSE}, {FALSE}, {FALSE}, {1}, {0})

HostsSpec == InitHosts /\ [][NextPing]_vars

\* ----------------------------------------------------------------- claims
\* the HostReports Collector h has sent: still in its pipe, or printed
Reports(h) ==
  {pipe[h][i] : i \in DOMAIN pipe[h]}
  \cup {printed[i].result : i \in {j \in DOMAIN printed : printed[j].host = h}}

\* a task of Collector h raised an error (none of them is a wait timeout)
PingRaised(h) == \E i \in DOMAIN pings[h] : pings[h][i].st = "raised"
ProbeRaised(h) ==
  PingRaised(h) \/ traceTask[h].st = "raised" \/ scanTask[h].st = "raised"

\* C1: a Collector one of whose probes raised an error other than a wait
\* timeout still completes and has sent one report, in which every probe
\* whose error run() met has the sentinel and no enabled probe is lost.
C1_ProbeFailureIsolated ==
  \A h \in Hosts :
    (cpc[h] \in Terminated /\ ProbeRaised(h)) =>
      /\ cpc[h] = "done"
      /\ sent[h] = 1
      /\ \A r \in Reports(h) :
           /\ conf.NOPING \/ r[1].type = "PingResult"
           /\ ~conf.TRACE \/ r[2].type = "Trace"
           /\ ~conf.PORTSCAN \/ r[3].type = "ScanResult"

\* C2: a Collector whose run() has ended has sent exactly one report, and a
\* report is sent only once each of the three fields has been settled (by
\* a result, by the timeout sentinel or by the probe being disabled).
C2_ExactlyOneReport ==
  \A h \in Hosts :
    /\ cpc[h] \in Terminated => sent[h] = 1
    /\ sent[h] <= 1
    /\ sent[h] >= 1 => \A i \in 1..3 : settled[h][i] # "unset"

C4_TimeoutGivesSentinel ==
  \A h \in Hosts : \A r \in Reports(h) : \A i \in 1..3 :
    settled[h][i] = "timeout" => r[i] = CollectorResult[i]

\* a report was sent after the trace was abandoned with hops already
\* recorded, and after the ping round was abandoned with calls returned
C4_Witness ==
  \E h \in Hosts :
    /\ Reports(h) # {}
    /\ settled[h][2] = "timeout"
    /\ traceTask[h].val.steps # << >>
    /\ settled[h][1] = "timeout"
    /\ \E i \in DOMAIN pings[h] : pings[h][i].st = "ret"
    /\ settled[h][3] = "timeout"

\* C5: in every report the ping field is None iff NOPING, the trace field
\* is None iff not TRACE, the scan field is None iff not PORTSCAN.
C5_AbsentIffDisabled ==
  \A h \in Hosts : \A r \in Reports(h) :
    /\ r[1].type = "None" <=> conf.NOPING
    /\ r[2].type = "None" <=> ~conf.TRACE
    /\ r[3].type = "None" <=> ~conf.PORTSCAN

\* a report of a run with ping disabled, trace enabled, port scan disabled
C5_Witness ==
  \E h \in Hosts :
    Reports(h) # {} /\ conf.NOPING /\ conf.TRACE /\ ~conf.PORTSCAN

\* results.get(8) returned the list of Collector h and no call was a reply
AllLost(h) ==
  /\ settled[h][1] \in {"value", "ValueError"}
  /\ \A i \in DOMAIN pings[h] : ~RLt(R(0), pings[h][i].ret)

\* C6: when results.get returned and no echo request was answered, the ping
\* field is PingResult(-1, -1, -1, -1, 100), in self.result and in every
\* report, and run() was not ended by an error.
C6_AllLostGivesSentinel ==
  \A h \in Hosts :
    AllLost(h) =>
      /\ result[h][1] = PingResult(R(-1), R(-1), R(-1), R(-1), R(100))
      /\ cpc[h] # "dead"
      /\ \A r \in Reports(h) :
           r[1] = PingResult(R(-1), R(-1), R(-1), R(-1), R(100))

\* a report of a round of MaxRound echo requests, all lost
C6_Witness ==
  \E h \in Hosts :
    AllLost(h) /\ Reports(h) # {} /\ conf.NUMPINGS = MaxRound

\* the statistics of the round of Collector h with every call that raised
\* counted as a lost packet
PingWithSendFailuresLost(h) ==
  LET pk == [i \in DOMAIN pings[h] |->
               IF pings[h][i].st = "raised" THEN R(-1) ELSE pings[h][i].ret]
      r == CollectorPingStats(pk, conf.NUMPINGS)
  IN  IF r.exc = "none" THEN r.val ELSE CollectorResult[1]

\* C7: a round in which a send failed and every other call was resolved
\* ends with the Collector completed and the ping field holding the
\* statistics in which the failed sequence number is one lost packet.
C7_SendFailureIsOneLoss ==
  \A h \in Hosts :
    (/\ cpc[h] \in Terminated
     /\ PingRaised(h)
     /\ \A i \in DOMAIN pings[h] : pings[h][i].st # "pending")
    => /\ cpc[h] = "done"
       /\ result[h][1] = PingWithSendFailuresLost(h)

\* the calls of Collector h that returned the loss marker of Pinger.recv
LossMarkers(h) == {i \in DOMAIN pings[h] : pings[h][i].ret = R(-1)}

\* C8: when results.get returned the list, every sequence number of
\* 0..NUMPINGS-1 has been resolved by its own call, and when statistics
\* were stored their loss is 100 * (number of loss markers) / NUMPINGS:
\* each receive timeout is one loss.
C8_TimeoutIsOneLoss ==
  \A h \in Hosts :
    settled[h][1] \in {"value", "ValueError"} =>
      /\ DOMAIN pings[h] = 1..conf.NUMPINGS
      /\ \A i \in DOMAIN pings[h] : pings[h][i].st = "ret"
      /\ settled[h][1] = "value" =>
           RMul(result[h][1].loss, R(conf.NUMPINGS))
             = R(100 * Cardinality(LossMarkers(h)))

\* statistics of a round of MaxRound in which exactly one call timed out
C8_Witness ==
  \E h \in Hosts :
    /\ settled[h][1] = "value"
    /\ conf.NUMPINGS = MaxRound
    /\ Cardinality(LossMarkers(h)) = 1

\* the calls of Collector h that returned a positive round trip, and the
\* round trip of call i in milliseconds
Replies(h) == {i \in DOMAIN pings[h] : RLt(R(0), pings[h][i].ret)}
Ms(h, i) == RMul(pings[h][i].ret, R(1000))

RECURSIVE SumMs(_, _)
SumMs(h, I) ==
  IF I = {} THEN R(0)
  ELSE LET i == CHOOSE x \in I : TRUE
       IN  RAdd(Ms(h, i), SumMs(h, I \ {i}))

RECURSIVE SumSqMs(_, _, _)
\* the sum over I of (Ms - mean)^2
SumSqMs(h, I, mean) ==
  IF I = {} THEN R(0)
  ELSE LET i == CHOOSE x \in I : TRUE
           d == RSub(Ms(h, i), mean)
       IN  RAdd(RMul(d, d), SumSqMs(h, I \ {i}, mean))

\* s is the square root of v rounded down to a multiple of 1/Prec
IsSqrtOf(s, v) ==
  /\ RLe(R(0), s)
  /\ RLe(RMul(s, s), v)
  /\ RLt(v, RMul(RAdd(s, Rat(1, Prec)), RAdd(s, Rat(1, Prec))))

\* C9: statistics of a round with at least two replies: min and max are
\* the smallest and largest sample, avg times n is the sum of the samples,
\* std is the square root of the sum of squared deviations over n - 1, and
\* loss times NUMPINGS is 100 times the calls that were no reply; samples
\* 10, 20, 30 ms of a round of 3 give 10, 20, 30, 10, 0.
C9_Statistics ==
  \A h \in Hosts :
    (settled[h][1] = "value" /\ Cardinality(Replies(h)) >= 2) =>
      LET r == result[h][1]
          I == Replies(h)
          n == Cardinality(I)
          mean == RDiv(SumMs(h, I), R(n))
      IN  /\ \E i \in I : r.minimum = Ms(h, i)
          /\ \A i \in I : RLe(r.minimum, Ms(h, i))
          /\ \E i \in I : r.maximum = Ms(h, i)
          /\ \A i \in I : RLe(Ms(h, i), r.maximum)
          /\ RMul(r.avg, R(n)) = SumMs(h, I)
          /\ IsSqrtOf(r.std, RDiv(SumSqMs(h, I, mean), R(n - 1)))
          /\ RMul(r.loss, R(conf.NUMPINGS)) = R(100 * (conf.NUMPINGS - n))
          /\ (Pkts(pings[h]) = << Rat(10, 1000), Rat(20, 1000), Rat(30, 1000) >>)
               => r = PingResult(R(10), R(20), R(30), R(10), R(0))

\* the statistics of the samples 10, 20, 30 ms have been stored
C9_Witness ==
  \E h \in Hosts :
    /\ settled[h][1] = "value"
    /\ Pkts(pings[h]) = << Rat(10, 1000), Rat(20, 1000), Rat(30, 1000) >>

\* C10: statistics of a round with exactly one reply: min, avg and max are
\* that sample, std is 0 and loss is (NUMPINGS - 1) / NUMPINGS * 100.
C10_SingleReply ==
  \A h \in Hosts :
    (settled[h][1] \in {"value", "ValueError"}
       /\ Cardinality(Replies(h)) = 1) =>
      LET r == result[h][1]
          i == CHOOSE x \in Replies(h) : TRUE
      IN  /\ settled[h][1] = "value"
          /\ cpc[h] # "dead"
          /\ r.minimum = Ms(h, i)
          /\ r.avg = Ms(h, i)
          /\ r.maximum = Ms(h, i)
          /\ r.std = R(0)
          /\ r.loss = Rat((conf.NUMPINGS - 1) * 100, conf.NUMPINGS)

\* statistics of a round of MaxRound with one reply have been stored
C10_Witness ==
  \E h \in Hosts :
    /\ settled[h][1] = "value"
    /\ Cardinality(Replies(h)) = 1
    /\ conf.NUMPINGS = MaxRound

\* ================================================= functions taken alone
\* the rest of the program while one function is called alone: no
\* Collector, main has returned
program == << conf, collectors, mainPc, mainI, printed, cpc, result, pipe,
              sent, pings, traceTask, scanTask, settled, proc, pool >>

Quiet ==
  /\ conf = [NOPING |-> FALSE, TRACE |-> FALSE, PORTSCAN |-> FALSE,
             NUMPINGS |-> 1, HOPS |-> 0]
  /\ collectors = << >>
  /\ mainPc = "done"
  /\ mainI = 1
  /\ printed = << >>
  /\ cpc = << >>
  /\ result = << >>
  /\ pipe = << >>
  /\ sent = << >>
  /\ pings = << >>
  /\ traceTask = << >>
  /\ scanTask = << >>
  /\ settled = << >>
  /\ proc = ProcAfterInit(0)

\* the call of fn with arguments arg, before it returns
Calling(fn, arg) == [fn |-> fn, arg |-> arg, ret |-> None, done |-> FALSE]

\* the call returns ret
Return(ret) ==
  /\ ~call.done
  /\ call' = [call EXCEPT !.ret = ret, !.done = TRUE]
  /\ UNCHANGED program

\* all sequences over S of length at most n
SeqsUpTo(S, n) == UNION {[1..k -> S] : k \in 0..n}

\* ------------------------------------------------------------- bytes
\* pkt[i] of Python, i counted from 0
At(pkt, i) == pkt[i + 1]

\* pkt[a:b] of Python for 0 <= a <= b: clipped to the length of pkt
Slice(pkt, a, b) ==
  LET hi == IF b < Len(pkt) THEN b ELSE Len(pkt)
  IN  IF a >= hi THEN << >> ELSE [i \in 1..(hi - a) |-> pkt[a + i]]

\* struct.pack("!H", v)
Pack16(v) == << v \div 256, v % 256 >>

\* struct.unpack("!H", b)[0] of a two-byte b
Unpack16(b) == b[1] * 256 + b[2]

\* n bytes of zero
Zeros(n) == [i \in 1..n |-> 0]

\* ------------------------------------------------- Pinger.recv, by packet
\* mutant of Icmpv4Parse: the ICMP type is not looked at
Icmpv4ParseAnyType(pkt) ==
  IF Len(Slice(pkt, 26, 28)) = 2 THEN Unpack16(Slice(pkt, 26, 28)) ELSE -1

\* Pinger._icmpv4Parse: the sequence number of an echo reply behind a
\* 20-byte IP header, -1 on anything else (IndexError and struct.error
\* are caught)
Icmpv4Parse(pkt) ==
  IF Len(pkt) > 20 /\ At(pkt, 20) = 0 /\ Len(Slice(pkt, 26, 28)) = 2
  THEN Unpack16(Slice(pkt, 26, 28))
  ELSE -1

\* mutant of Icmpv6Parse: a buffer cut before its sequence number reads as
\* an echo reply of sequence number 0
Icmpv6ParsePadded(pkt) ==
  IF Len(pkt) > 0 /\ At(pkt, 0) = 129
  THEN IF Len(Slice(pkt, 6, 8)) = 2 THEN Unpack16(Slice(pkt, 6, 8)) ELSE 0
  ELSE -1

\* Pinger._icmpv6Parse: the socket delivers ICMPv6 without an IP header
Icmpv6Parse(pkt) ==
  IF Len(pkt) > 0 /\ At(pkt, 0) = 129 /\ Len(Slice(pkt, 6, 8)) = 2
  THEN Unpack16(Slice(pkt, 6, 8))
  ELSE -1

\* Pinger.__init__: the parser is chosen by the family of the host
PingerIcmpParse(family, pkt) ==
  IF family = 6 THEN Icmpv6Parse(pkt) ELSE Icmpv4Parse(pkt)

\* an IPv4 datagram as the raw socket delivers it: 20 bytes of IP header,
\* then the ICMP message
Ip4(icmp) == Zeros(20) \o icmp

\* an ICMP message of the given type carrying identifier 2 and seq
IcmpMsg(type, seq) == << type, 0, 0, 0 >> \o Pack16(2) \o Pack16(seq)

\* the packets a raw ICMP socket can deliver to a Pinger of the family:
\* echo replies (sequence number 1 was sent by this Pinger, 2 was not), an
\* error message, a truncated packet
FeedData(family) ==
  IF family = 6
  THEN {IcmpMsg(129, s) : s \in {1, 2}} \cup {IcmpMsg(1, 1), << 129, 0 >>}
  ELSE {Ip4(IcmpMsg(0, s)) : s \in {1, 2}}
         \cup {Ip4(IcmpMsg(3, 1)), Zeros(10)}

\* what recvfrom returns: the packet and the address it came from
FeedPackets(family) ==
  {[src |-> a, data |-> d] : a \in {Addr[1], Router}, d \in FeedData(family)}

\* the i-th packet of a feed is read 10 i milliseconds after the echo
\* request of sequence number 1 was sent
ReadAt(i) == i * 10

\* mutant of FromHost: the source address is not looked at
FromAnyHost(addr, host) == TRUE

\* ping.py:292: the packet must have come from the host that was pinged
FromHost(addr, host) == addr = host

\* Pinger.recv: feed is what the successive recvfrom calls return before
\* one raises socket.timeout; i counts the calls made, timestamps maps the
\* sequence numbers sent to their send times in milliseconds
RECURSIVE PingerRecvFeed(_, _, _, _, _)
PingerRecvFeed(feed, i, host, family, timestamps) ==
  IF feed = << >> THEN Ok(R(-1))
  ELSE LET seqno == PingerIcmpParse(family, Head(feed).data)
       IN  IF FromHost(Head(feed).src, host) /\ seqno >= 0
           THEN IF seqno \in DOMAIN timestamps
                THEN Ok(Rat(ReadAt(i + 1) - timestamps[seqno], 1000))
                ELSE Raise("KeyError")
           ELSE PingerRecvFeed(Tail(feed), i + 1, host, family, timestamps)

\* the Pinger of the calls: it pinged Addr[1] with sequence number 1 at 0
PingerTimestamps == (1 :> 0)

PingerRecvCall ==
  /\ call.fn = "Pinger.recv"
  /\ Return(PingerRecvFeed(call.arg.feed, 0, Addr[1], call.arg.family,
                           PingerTimestamps))

\* the parser of a Pinger of the family (ping.icmpParse(pkt, ipv6) has the
\* same tests under one try), called alone on a buffer
IcmpParseCall ==
  /\ call.fn = "icmpParse"
  /\ Return(PingerIcmpParse(call.arg.family, call.arg.pkt))

\* Pinger.recv on every feed of at most MaxFeed packets; the parser on an
\* ICMP message of any type as the socket of the family delivers it, cut
\* to every length from empty or followed by one more byte
InitRecv ==
  /\ Quiet
  /\ pool = None
  /\ \/ \E family \in {4, 6} :
          \E feed \in SeqsUpTo(FeedPackets(family), MaxFeed) :
            call = Calling("Pinger.recv", [family |-> family, feed |-> feed])
     \/ \E family \in {4, 6}, type \in {0, 8, 129}, seq \in {1, 258} :
          LET whole == IF family = 6 THEN IcmpMsg(type, seq)
                       ELSE Ip4(IcmpMsg(type, seq))
          IN  \E len \in 0..(Len(whole) + 1) :
                call = Calling("icmpParse",
                  [family |-> family,
                   pkt |-> Slice(whole \o << 7 >>, 0, len)])

NextRecv ==
  \/ PingerRecvCall
  \/ IcmpParseCall

RecvSpec == InitRecv /\ [][NextRecv]_vars

\* ---------------------------------------------------------------- C11
\* the positions in the feed of the echo replies sent by the target
TargetReplies(c) ==
  {i \in DOMAIN c.arg.feed :
     /\ c.arg.feed[i].src = Addr[1]
     /\ PingerIcmpParse(c.arg.family, c.arg.feed[i].data) >= 0}

FirstOf(S) == CHOOSE i \in S : \A j \in S : i <= j

\* C11: whatever foreign packets are interleaved, Pinger.recv gives the loss
\* marker when the target sent no echo reply, and otherwise the time from
\* the send of the sequence number of the target's first echo reply to the
\* read of that reply (KeyError when that number was never sent); a packet
\* of another source never resolves the call.
C11_ForeignPacketsIgnored ==
  (call.fn = "Pinger.recv" /\ call.done) =>
    IF TargetReplies(call) = {}
    THEN call.ret = Ok(R(-1))
    ELSE LET k == FirstOf(TargetReplies(call))
             seqno == PingerIcmpParse(call.arg.family, call.arg.feed[k].data)
         IN  IF seqno \in DOMAIN PingerTimestamps
             THEN call.ret = Ok(Rat(ReadAt(k) - PingerTimestamps[seqno], 1000))
             ELSE call.ret = Raise("KeyError")

\* a foreign echo reply of the pending sequence number was read first, and
\* the call returned the time of the target's later reply
C11_Witness ==
  /\ call.fn = "Pinger.recv" /\ call.done
  /\ Len(call.arg.feed) = MaxFeed
  /\ call.arg.feed[1].src = Router
  /\ PingerIcmpParse(call.arg.family, call.arg.feed[1].data) = 1
  /\ call.arg.feed[MaxFeed].src = Addr[1]
  /\ call.ret = Ok(Rat(ReadAt(MaxFeed), 1000))

\* ------------------------------------------------------ ICMPv4 checksum
\* mutant of Htons: the bytes are never swapped
HtonsIdentity(v, byteorder) == v

\* socket.htons: swaps the two bytes on a little-endian host
Htons(v, byteorder) ==
  IF byteorder = "little" THEN (v % 256) * 256 + (v \div 256) ELSE v

\* the loop of _checksum4 over the pairs of bytes from index count on
RECURSIVE SumPairs(_, _, _)
SumPairs(pkt, count, byteorder) ==
  IF count >= (Len(pkt) \div 2) * 2 THEN 0
  ELSE LET loByte == IF byteorder = "little" THEN At(pkt, count)
                     ELSE At(pkt, count + 1)
           hiByte == IF byteorder = "little" THEN At(pkt, count + 1)
                     ELSE At(pkt, count)
       IN  hiByte * 256 + loByte + SumPairs(pkt, count + 2, byteorder)

\* Pinger._checksum4 and icmp.ICMPv4_checksum (the same statements). The sum
\* of a datagram's words stays below 2^32, so total &= 0xffffffff changes
\* nothing; (~total) & 0xffff is 65535 - total % 65536.
Checksum4(pkt, byteorder) ==
  LET paired == SumPairs(pkt, 0, byteorder)
      total == IF (Len(pkt) \div 2) * 2 < Len(pkt)
               THEN paired + At(pkt, Len(pkt) - 1) ELSE paired
      folded == (total \div 65536) + (total % 65536)
      carried == folded + (folded \div 65536)
  IN  Htons(65535 - (carried % 65536), byteorder)

\* struct.pack("!...H...", ..., checksum, ...): the two bytes of the
\* checksum written at offset off of pkt
WithChecksum(pkt, off, checksum) ==
  [i \in DOMAIN pkt |->
     IF i = off + 1 THEN Pack16(checksum)[1]
     ELSE IF i = off + 2 THEN Pack16(checksum)[2] ELSE pkt[i]]

\* the bytes the buffers are made of
SomeBytes == {0, 1, 128, 255}

\* the buffers of at most MaxBuf bytes with a zeroed 16-bit field at an even
\* offset off
ZeroedAt(off) ==
  {b \in SeqsUpTo(SomeBytes, MaxBuf) :
     Len(b) >= off + 2 /\ At(b, off) = 0 /\ At(b, off + 1) = 0}

\* _mkPkt4's two steps on a buffer, and the checksum of what they give
Checksum4Call ==
  /\ call.fn = "_checksum4"
  /\ LET checksum == Checksum4(call.arg.pkt, call.arg.byteorder)
         packed == WithChecksum(call.arg.pkt, call.arg.off, checksum)
     IN  Return([checksum |-> checksum, packed |-> packed,
                 again |-> Checksum4(packed, call.arg.byteorder)])

\* sys.byteorder is either; the field is at any even offset
InitChecksum ==
  /\ Quiet
  /\ pool = None
  /\ \E byteorder \in {"little", "big"}, k \in 0..(MaxBuf \div 2) :
       \E b \in ZeroedAt(2 * k) :
         call = Calling("_checksum4",
                        [pkt |-> b, off |-> 2 * k, byteorder |-> byteorder])

NextChecksum == Checksum4Call

ChecksumSpec == InitChecksum /\ [][NextChecksum]_vars

\* ---------------------------------------------------------------- C12
\* C12: for every buffer, of even or odd length, with a zeroed 16-bit field
\* at an even offset, the buffer with the ICMPv4 checksum packed into that
\* field has checksum zero under the same function.
C12_ChecksumSelfConsistent ==
  (call.fn = "_checksum4" /\ call.done) => call.ret.again = 0

\* an odd-length buffer whose sum carries out of 16 bits, on a little-endian
\* host, with a checksum whose two bytes differ
C12_Witness ==
  /\ call.fn = "_checksum4" /\ call.done
  /\ call.arg.byteorder = "little"
  /\ Len(call.arg.pkt) = MaxBuf - 1 + (MaxBuf % 2)
  /\ SumPairs(call.arg.pkt, 0, "little") >= 65536
  /\ call.ret.checksum \div 256 # call.ret.checksum % 256
  /\ call.ret.again = 0

\* ------------------------------------------------- echo request codec
\* mutant of EchoHeader: the sequence number before the identifier
EchoHeaderSeqFirst(type, checksum, seqno) ==
  << type, 0 >> \o Pack16(checksum) \o Pack16(seqno) \o Pack16(2)

\* struct.pack("!BBHHH", type, 0, checksum, 2, seqno)
EchoHeader(type, checksum, seqno) ==
  << type, 0 >> \o Pack16(checksum) \o Pack16(2) \o Pack16(seqno)

\* Pinger._checksum6 of pkt for a socket bound to laddr and a host raddr:
\* the words of pseudo-header and packet in network order, folded and
\* complemented. An odd length raises TypeError (ord of an int).
Checksum6(pkt, laddr, raddr) ==
  LET psh == laddr \o raddr \o << 0, 0 >> \o Pack16(Len(pkt))
               \o << 0, 0, 0, 58 >>
      packet == psh \o pkt
      total == SumPairs(packet, 0, "big")
      folded == (total \div 65536) + (total % 65536)
      carried == folded + (folded \div 65536)
  IN  IF Len(packet) % 2 = 1 THEN Raise("TypeError")
      ELSE Ok(65535 - (carried % 65536))

\* Pinger._mkPkt4(seqno)
MkPkt4(seqno, payload, byteorder) ==
  EchoHeader(8, Checksum4(EchoHeader(8, 0, seqno) \o payload, byteorder),
             seqno) \o payload

\* Pinger._mkPkt6(seqno): the checksum is taken over the header alone; the
\* socket is bound to ::1 and the host is ::2
MkPkt6(seqno, payload) ==
  EchoHeader(128, Checksum6(EchoHeader(128, 0, seqno), Zeros(15) \o << 1 >>,
                            Zeros(15) \o << 2 >>).val,
             seqno) \o payload

\* icmp.ICMPv4Type(Type) and icmp.ICMPv6Type(Type): the member of that
\* value, ValueError when there is none
IcmpType(family, Type) ==
  IF family = 6
  THEN CASE Type = 1 -> Ok("Destination_Unreachable")
         [] Type = 3 -> Ok("Time_Exceeded")
         [] Type = 128 -> Ok("Echo_Request")
         [] Type = 129 -> Ok("Echo_Reply")
         [] OTHER -> Raise("ValueError")
  ELSE CASE Type = 0 -> Ok("Echo_Reply")
         [] Type = 3 -> Ok("Destination_Unreachable")
         [] Type = 8 -> Ok("Echo_Request")
         [] Type = 11 -> Ok("Time_Exceeded")
         [] OTHER -> Raise("ValueError")

\* icmp.ICMPPkt(host, pkt=pkt): pkt is cut to 8 bytes and unpacked with
\* "!BBH4s"; empty bytes are no packet (TypeError)
IcmpPktFromBytes(family, pkt) ==
  IF pkt = << >> THEN Raise("TypeError")
  ELSE IF Len(pkt) < 8 THEN Raise("ValueError")
  ELSE IF IcmpType(family, At(pkt, 0)).exc # "none"
       THEN IcmpType(family, At(pkt, 0))
  ELSE Ok([Type |-> IcmpType(family, At(pkt, 0)).val,
           Code |-> At(pkt, 1),
           Checksum |-> Unpack16(Slice(pkt, 2, 4)),
           Payload |-> Slice(pkt, 4, 8)])

\* icmp.ICMPPkt.seqno: struct.unpack("!HH", self.Payload)[1]
IcmpPktSeqno(p) ==
  IF p.Type \notin {"Echo_Reply", "Echo_Request"}
  THEN Raise("AttributeError")
  ELSE Ok(Unpack16(Slice(p.Payload, 2, 4)))

\* an echo request is built by the Pinger and read back as an ICMPPkt
EchoRoundTripCall ==
  /\ call.fn = "mkPkt"
  /\ LET pkt == IF call.arg.family = 6
                THEN MkPkt6(call.arg.seqno, call.arg.payload)
                ELSE MkPkt4(call.arg.seqno, call.arg.payload,
                            call.arg.byteorder)
         decoded == IcmpPktFromBytes(call.arg.family, pkt)
     IN  Return([pkt |-> pkt, decoded |-> decoded,
                 seqno |-> IF decoded.exc = "none"
                           THEN IcmpPktSeqno(decoded.val) ELSE decoded])

\* the ICMPv6 checksum called alone on a message and two addresses:
\* Pinger._checksum6 and ping.IPv6_checksum (fn "_checksum6": the same
\* statements, with ord(packet[-1]) on an odd length) and
\* icmp.ICMPv6_checksum, which adds packet[-1] << 8 instead
Checksum6Call ==
  /\ call.fn \in {"_checksum6", "ICMPv6_checksum"}
  /\ LET pkt == call.arg.pkt
         packet == call.arg.laddr \o call.arg.raddr \o << 0, 0 >>
                     \o Pack16(Len(pkt)) \o << 0, 0, 0, 58 >> \o pkt
         total == SumPairs(packet, 0, "big") + packet[Len(packet)] * 256
         folded == (total \div 65536) + (total % 65536)
         carried == folded + (folded \div 65536)
     IN  Return(IF call.fn = "ICMPv6_checksum" /\ Len(packet) % 2 = 1
                THEN Ok(65535 - (carried % 65536))
                ELSE Checksum6(pkt, call.arg.laddr, call.arg.raddr))

\* echo requests are built for both families; the ICMPv6 checksum is taken
\* of messages of even and odd length, between ::1 or an address of 255s
\* and ::2
InitCodec ==
  /\ Quiet
  /\ pool = None
  /\ \/ \E family \in {4, 6}, seqno \in {0, 1, 255, 256, 65535},
            byteorder \in {"little", "big"} :
          \E payload \in SeqsUpTo(SomeBytes, MaxPayload) :
            call = Calling("mkPkt", [family |-> family, seqno |-> seqno,
                                     payload |-> payload,
                                     byteorder |-> byteorder])
     \/ \E fn \in {"_checksum6", "ICMPv6_checksum"},
            laddr \in {Zeros(15) \o << 1 >>, [i \in 1..16 |-> 255]} :
          \E pkt \in SeqsUpTo(SomeBytes, MaxPayload + 1) :
            call = Calling(fn, [pkt |-> pkt, laddr |-> laddr,
                                raddr |-> Zeros(15) \o << 2 >>])

NextCodec ==
  \/ EchoRoundTripCall
  \/ Checksum6Call

CodecSpec == InitCodec /\ [][NextCodec]_vars

\* ---------------------------------------------------------------- C13
\* C13: for every payload, both families and every sequence number, the
\* bytes of the echo request decode to type Echo Request and to the same
\* sequence number.
C13_EchoRoundTrip ==
  (call.fn = "mkPkt" /\ call.done) =>
    /\ call.ret.decoded.exc = "none"
    /\ call.ret.decoded.val.Type = "Echo_Request"
    /\ call.ret.seqno = Ok(call.arg.seqno)

\* the largest sequence number with the longest payload, over IPv6
C13_Witness ==
  /\ call.fn = "mkPkt" /\ call.done
  /\ call.arg.family = 6
  /\ call.arg.seqno = 65535
  /\ Len(call.arg.payload) = MaxPayload
  /\ call.ret.seqno = Ok(65535)

\* ---------------------------------------------------------------- C14
\* C14: every Trace in a report, returned by the tracer or put in as the
\* timeout sentinel, has at most HOPS steps.
C14_TraceWithinHops ==
  \A h \in Hosts : \A r \in Reports(h) :
    r[2].type = "Trace" => Len(r[2].steps) <= conf.HOPS

\* --------------------------------------------- the two route tracers alone
\* what the network does to one TTL of a trace to Addr[1]: whether the send
\* succeeds, and what the receive loop then ends on
TtlOutcomes ==
  {[sent |-> s, recv |-> o] :
     s \in BOOLEAN, o \in {x \in TraceOutcomes(1) : x.kind # "sendfail"}}

\* traceroute.trace(host, myID, config) for HOPS = Len(script): the task it
\* ends as, and the number of TTLs it went through
RECURSIVE TraceRun(_, _, _, _, _)
TraceRun(script, ttl, ret, addr, hops) ==
  IF script = << >> THEN [task |-> Returned(Trace(ret)), ttl |-> ttl]
  ELSE LET o == IF Head(script).sent THEN Head(script).recv
                ELSE [kind |-> "sendfail", addr |-> "*", delay |-> 0]
           t == TraceIteration(ret, o, addr, hops)
       IN  IF t.st = "run"
           THEN TraceRun(Tail(script), ttl + 1, t.val.steps, addr, hops)
           ELSE [task |-> t, ttl |-> ttl + 1]

\* Tracer.trace() for maxHops = Len(script): a failed send appends a step
\* and the receive loop still runs; a packet too short for
\* isMyIPv4TraceResponse raises out of the loop
RECURSIVE TracerRun(_, _, _, _)
TracerRun(script, ttl, ret, addr) ==
  IF script = << >> THEN [task |-> Returned(Trace(ret)), ttl |-> ttl]
  ELSE LET e == Head(script)
           tried == IF e.sent THEN ret
                    ELSE Append(ret, TraceStep("*", R(-1)))
           new == Append(tried, TraceHop(e.recv))
       IN  IF e.recv.kind = "short"
           THEN [task |-> Raised(Trace(tried)), ttl |-> ttl + 1]
           ELSE IF e.recv.kind = "reply" /\ e.recv.addr = addr
           THEN [task |-> Returned(Trace(new)), ttl |-> ttl + 1]
           ELSE TracerRun(Tail(script), ttl + 1, new, addr)

TraceCall ==
  /\ call.fn = "trace"
  /\ Return(TraceRun(call.arg.script, 0, << >>, Addr[1],
                     Len(call.arg.script)))

TracerTraceCall ==
  /\ call.fn = "Tracer.trace"
  /\ Return(TracerRun(call.arg.script, 0, << >>, Addr[1]))

\* both tracers, for every hop limit up to MaxHops and every network
InitTrace ==
  /\ Quiet
  /\ pool = None
  /\ \E fn \in {"trace", "Tracer.trace"}, hops \in 0..MaxHops :
       \E script \in [1..hops -> TtlOutcomes] :
         call = Calling(fn, [script |-> script])

NextTrace ==
  \/ TraceCall
  \/ TracerTraceCall

TraceSpec == InitTrace /\ [][NextTrace]_vars

\* ---------------------------------------------------------------- C15
\* C15: in every returned Trace the target's address occurs in the last
\* step only; when it occurs, the TTL that recorded it is the last one
\* probed; when it does not, every TTL up to the hop limit was probed and
\* has a step.
C15_StopsAtTarget ==
  (call.fn \in {"trace", "Tracer.trace"} /\ call.done
     /\ call.ret.task.st = "ret") =>
    LET steps == call.ret.task.val.steps
        hops == Len(call.arg.script)
    IN  /\ \A i \in DOMAIN steps : steps[i].host = Addr[1] => i = Len(steps)
        /\ (\E i \in DOMAIN steps : steps[i].host = Addr[1]) =>
             /\ call.ret.ttl \in 1..hops
             /\ call.arg.script[call.ret.ttl].recv.addr = Addr[1]
        /\ ~(\E i \in DOMAIN steps : steps[i].host = Addr[1]) =>
             /\ call.ret.ttl = hops
             /\ Len(steps) >= hops

\* the target answered a TTL below the hop limit and the function
\* returned with that hop last, leaving the later TTLs unprobed
C15_Witness ==
  /\ call.fn = "trace" /\ call.done
  /\ Len(call.arg.script) = MaxHops
  /\ call.ret.task.st = "ret"
  /\ call.ret.ttl < MaxHops
  /\ Len(call.ret.task.val.steps) = call.ret.ttl
  /\ call.ret.task.val.steps[call.ret.ttl].host = Addr[1]

\* ------------------------------------- which packets a trace takes as its own
\* the ICMP error a router or the target returns for a UDP probe, as the raw
\* IPv4 socket delivers it: IP header, ICMP header, then the IP header
\* (destination at 16..19 of it) and UDP header (destination port at 2..3 of
\* it) of the probe
IcmpError(type, dst, port) ==
  Zeros(20) \o << type, 0, 0, 0, 0, 0, 0, 0 >> \o Zeros(16) \o dst
    \o << 0, 0 >> \o Pack16(port) \o Zeros(4)

\* host.addr of the two targets, as the four numbers of its dotted form
TargetAddrs == {<< 10, 0, 0, 1 >>, << 10, 0, 0, 2 >>}

\* the identifiers (UDP destination ports) of the traces
TraceIds == {33434, 33435}

\* the test of the receive loop of traceroute.trace on one packet, for IPv4:
\* isTraceResponse, getIntendedDestination and getID; x[20], x[50] and x[51]
\* raise IndexError on a packet that short
TraceTakes(x, addr, myID) ==
  IF Len(x) <= 20 THEN "IndexError"
  ELSE IF At(x, 20) \notin {11, 3} THEN "skip"
  ELSE IF Slice(x, 44, 48) # addr THEN "skip"
  ELSE IF Len(x) <= 51 THEN "IndexError"
  ELSE IF At(x, 50) * 256 + At(x, 51) = myID THEN "take" ELSE "skip"

\* Tracer.isMyIPv4TraceResponse(pkt) as the receive loop of Tracer.trace uses
\* it; unpack raises struct.error on a slice shorter than two bytes
TracerTakes(pkt, ID) ==
  IF Len(pkt) <= 20 THEN "IndexError"
  ELSE IF At(pkt, 20) \notin {11, 3} THEN "skip"
  ELSE IF Len(Slice(pkt, 50, 52)) # 2 THEN "struct.error"
  ELSE IF Unpack16(Slice(pkt, 50, 52)) = ID THEN "take" ELSE "skip"

TraceTakesCall ==
  /\ call.fn = "isTraceResponse"
  /\ Return(TraceTakes(call.arg.pkt, call.arg.addr, call.arg.ID))

TracerTakesCall ==
  /\ call.fn = "isMyIPv4TraceResponse"
  /\ Return(TracerTakes(call.arg.pkt, call.arg.ID))

\* a trace to addr with identifier ID reads the response to a probe that was
\* sent to dst, port; the response is whole or cut to 30 bytes
InitTakes ==
  /\ Quiet
  /\ pool = None
  /\ \E fn \in {"isTraceResponse", "isMyIPv4TraceResponse"},
        addr \in TargetAddrs, ID \in TraceIds, type \in {0, 3, 8, 11},
        dst \in TargetAddrs, port \in TraceIds, whole \in BOOLEAN :
       call = Calling(fn,
         [addr |-> addr, ID |-> ID, type |-> type, dst |-> dst,
          port |-> port,
          pkt |-> IF whole THEN IcmpError(type, dst, port)
                  ELSE Slice(IcmpError(type, dst, port), 0, 30)])

NextTakes ==
  \/ TraceTakesCall
  \/ TracerTakesCall

TakesSpec == InitTakes /\ [][NextTakes]_vars

\* ---------------------------------------------------------------- C16
\* C16: a trace records a packet as a hop only if its ICMP type is 11 or 3
\* and the probe embedded in it was sent to this trace's target and to this
\* trace's identifier as port; so the response to the probe of a trace with
\* another target or another identifier is never recorded.
C16_OnlyOwnResponses ==
  (call.fn \in {"isTraceResponse", "isMyIPv4TraceResponse"} /\ call.done
     /\ call.ret = "take") =>
    /\ call.arg.type \in {11, 3}
    /\ call.arg.dst = call.arg.addr
    /\ call.arg.port = call.arg.ID

\* ============================================ main, from its first line
\* what the steps of main before its loop leave alone
collecting == << conf, collectors, printed, cpc, result, pipe, sent, pings,
                 traceTask, scanTask, settled, call, pool >>

\* the process has ended with this status
Exited(code) == [type |-> "exit", code |-> code]

\* mutant of UtilsError: the error is logged and the call returns
UtilsErrorReturns(p, err, fatal) ==
  [p EXCEPT !.stderr = Append(@, err)]

\* utils.error(err, fatal): logs err to stderr, then exit(int(fatal)) when
\* fatal is True
UtilsError(p, err, fatal) ==
  [p EXCEPT !.stderr = Append(@, err),
            !.exit = IF fatal THEN Exited(1) ELSE @]

\* an exception nothing catches: the traceback on stderr, status 1
Uncaught(p, exc) == [p EXCEPT !.stderr = Append(@, exc), !.exit = Exited(1)]

\* where main is after a call that may have ended the process
After(p, pc) == IF p.exit = StillRunning THEN pc ELSE "exited"

\* __init__.py:43-52: the raw socket is opened and closed; PermissionError
\* is logged, then the hint is logged as a fatal error
MainPrivilegeCheck ==
  /\ mainPc = "priv"
  /\ proc' = IF proc.perm THEN proc
             ELSE UtilsError(UtilsError(proc, "PermissionError", FALSE),
                             "Hint", TRUE)
  /\ mainPc' = After(proc', "init")
  /\ UNCHANGED << mainI, collecting >>

\* config.init() up to the hosts loop (config.py:51-134): --version prints
\* and exits 0; the raw socket is tried again; CONFIG is built with no hosts
ConfigInit ==
  /\ mainPc = "init"
  /\ proc' = IF proc.version
             THEN [proc EXCEPT !.stdout = Append(@, "Version"),
                               !.exit = Exited(0)]
             ELSE IF ~proc.perm
             THEN UtilsError(UtilsError(proc, "PermissionError", FALSE),
                             "Hint", TRUE)
             ELSE [proc EXCEPT !.hosts = << >>]
  /\ mainPc' = After(proc', IF proc.args = << >> THEN "hosts" ELSE "resolve")
  /\ mainI' = 1
  /\ UNCHANGED collecting

\* one iteration of the hosts loop of config.init() (config.py:137-142):
\* CONFIG.HOSTS is a dict, a name given twice is one key
ConfigInitHost ==
  /\ mainPc = "resolve"
  /\ LET host == proc.args[mainI]
     IN  proc' = IF host = Unresolvable
                 THEN UtilsError(proc, "Unable to resolve host", FALSE)
                 ELSE IF \E i \in DOMAIN proc.hosts : proc.hosts[i] = host
                 THEN proc
                 ELSE [proc EXCEPT !.hosts = Append(@, host)]
  /\ IF mainI < Len(proc.args)
     THEN mainI' = mainI + 1 /\ mainPc' = "resolve"
     ELSE mainI' = 1 /\ mainPc' = "hosts"
  /\ UNCHANGED collecting

\* __init__.py:61: the module config has no attribute HOSTS (the hosts are
\* in config.CONFIG.HOSTS), so the test raises AttributeError
MainHostsCheck ==
  /\ mainPc = "hosts"
  /\ proc' = Uncaught(proc, "AttributeError")
  /\ mainPc' = After(proc', "start")
  /\ UNCHANGED << mainI, collecting >>

\* the command lines: up to MaxNames names, with or without --version, run
\* with or without the privilege to open raw sockets
InitMain ==
  /\ conf = [NOPING |-> FALSE, TRACE |-> FALSE, PORTSCAN |-> FALSE,
             NUMPINGS |-> 1, HOPS |-> 0]
  /\ collectors = << >>
  /\ mainPc = "priv"
  /\ mainI = 1
  /\ printed = << >>
  /\ cpc = << >>
  /\ result = << >>
  /\ pipe = << >>
  /\ sent = << >>
  /\ pings = << >>
  /\ traceTask = << >>
  /\ scanTask = << >>
  /\ settled = << >>
  /\ call = NoCall
  /\ pool = None
  /\ \E perm \in BOOLEAN, version \in BOOLEAN :
       \E args \in SeqsUpTo({Names[1], Names[2], Unresolvable}, MaxNames) :
         proc = [perm |-> perm, version |-> version, args |-> args,
                 hosts |-> << >>, stderr |-> << >>, stdout |-> << >>,
                 exit |-> StillRunning]

NextMain ==
  \/ MainPrivilegeCheck
  \/ ConfigInit
  \/ ConfigInitHost
  \/ MainHostsCheck

MainSpec == InitMain /\ [][NextMain]_vars

C18_PrivilegeCheckFirst ==
  /\ mainPc = "priv" => collectors = << >>
  /\ ~proc.perm =>
       /\ mainPc \in {"priv", "exited"}
       /\ collectors = << >>
       /\ mainPc = "exited" =>
            /\ proc.exit.type = "exit" /\ proc.exit.code # 0
            /\ proc.stderr = << "PermissionError", "Hint" >>

\* refused the raw socket with MaxNames names to measure, the process has
\* exited with status 1
C18_Witness ==
  /\ ~proc.perm
  /\ ~proc.version
  /\ Len(proc.args) = MaxNames
  /\ mainPc = "exited"
  /\ proc.exit = Exited(1)

\* ---------------------------------------------------------------- C19
\* C19: with the privilege and not --version, a run that resolved at least
\* one name ends with status 0 having run one Collector for each resolved
\* name, and a run that resolved none ends with a non-zero status and no
\* Collector.
C19_OneCollectorPerResolvedName ==
  (mainPc \in {"exited", "done"} /\ proc.perm /\ ~proc.version) =>
    IF proc.hosts # << >>
    THEN /\ mainPc = "done"
         /\ Len(collectors) = Len(proc.hosts)
         /\ \A h \in Hosts : cpc[h] \in Terminated
    ELSE /\ proc.exit.type = "exit" /\ proc.exit.code # 0
         /\ collectors = << >>

\* ---------------------------------------------------------------- C20
\* the banner of an HTTP or HTTPS result is that of the Server header, which
\* is "nginx" whenever the response has one, or else "Unknown"
BannerOrUnknown(r) ==
  (r.type = "tuple" /\ r.server # "nginx") => r.server = "Unknown"

\* C20: a probe that read a response without a Server header gives a result
\* that is present and has the banner "Unknown".
C20_NoServerHeaderUnknown ==
  \A h \in Hosts :
    scanTask[h].st = "ret" =>
      /\ BannerOrUnknown(scanTask[h].val.httpresult)
      /\ BannerOrUnknown(scanTask[h].val.httpsresult)


\* =========================================== the probes of ports.py alone
\* what a connection does to one request attempt
\* ("oserror": the socket is closed or the peer reset the connection)
AttemptOutcomes == {"ok", "oserror", "timeout", "refused", "sslerror"}

\* Scanner.http (fn "Scanner.http", port 80) and Scanner.https
\* ("Scanner.https", port 443), called alone on a constructed Scanner: the
\* request on the socket kept from the constructor does call.arg.first, the
\* one on a fresh connection does call.arg.retry, and what is read into the
\* buffer is call.arg.body. The buffer is a bytearray(1024), which is never
\* empty: with nothing read it holds its zeros. The handlers of ssl.SSLError
\* format a message with the name url, which Scanner does not define.
ScannerHttpCall ==
  /\ call.fn \in {"Scanner.http", "Scanner.https"}
  /\ LET tls == call.fn = "Scanner.https"
         first == call.arg.first
         retry == call.arg.retry
         body == call.arg.body
         parse ==
           IF body = "undecodable" THEN Raise("UnicodeDecodeError")
           ELSE Ok([type |-> "tuple", rtt |-> R(4),
                    status |-> IF body = "empty" THEN "<0><0><0>" ELSE "200",
                    server |-> IF body = "ok" THEN "nginx" ELSE "Unkown"])
         again ==
           CASE retry = "ok" -> parse
             [] retry = "sslerror" /\ tls -> Raise("NameError")
             [] OTHER -> Ok(None)
     IN  Return(
           CASE first = "ok" ->
                  [attempts |-> 1, reconnects |-> 0, out |-> parse]
             [] first = "sslerror" /\ tls ->
                  [attempts |-> 1, reconnects |-> 0,
                   out |-> Raise("NameError")]
             [] OTHER -> [attempts |-> 2, reconnects |-> 1, out |-> again])

\* Scanner.mysql, called alone: port 3306 does call.arg. The connect fails
\* into the handler of OSError; after a connect that succeeded the method
\* reads into self.buffers[2], and the constructor made two buffers only
ScannerMysqlCall ==
  /\ call.fn = "Scanner.mysql"
  /\ Return(IF call.arg = "refused" THEN Ok(None) ELSE Raise("IndexError"))

\* ports.mysql(url), called alone: port 3306 does call.arg
MysqlCall ==
  /\ call.fn = "mysql"
  /\ Return(Mysql(call.arg))

\* ports.http(url, port), called alone: the port does call.arg
HttpCall ==
  /\ call.fn = "http"
  /\ Return(Http(call.arg))

\* ------------------------------------------- the trace steps of utils.py
\* (mutant) a step whose round trip is zero is not valid
TraceStepIsValidStrict(self) == RLt(R(0), self.rtt) /\ self.host # "*"

\* utils.traceStepIsValid: bool(step)
TraceStepIsValid(self) == RLe(R(0), self.rtt) /\ self.host # "*"

\* (mutant) the steps are compared without leaving the invalid ones out
CompareTracesUnfiltered(self, other) ==
  /\ Len(self) = Len(other)
  /\ \A i \in 1..Len(self) : self[i].host = other[i].host

\* utils.compareTraces: the steps that are true are kept, and the two lists
\* are compared in length and step by step with utils.compareTraceSteps,
\* which compares the hosts
CompareTraces(self, other) ==
  LET this == SelectSeq(self, TraceStepIsValid)
      that == SelectSeq(other, TraceStepIsValid)
      compareTraceSteps(x, y) == x.host = y.host
  IN  /\ Len(this) = Len(that)
      /\ \A i \in 1..Len(this) : compareTraceSteps(this[i], that[i])

\* compareTraces(a, b), called alone
CompareTracesCall ==
  /\ call.fn = "compareTraces"
  /\ Return(IF CompareTraces(call.arg.a, call.arg.b) THEN "True"
            ELSE "False")

\* bool(step), str(step) and repr(step) of one TraceStep: utils.py sets
\* traceStepIsValid, traceStepToStr and traceStepRepr as the methods of the
\* class. "%.3f" and "%f" print the round trip rounded to 3 and to 6
\* decimals, a tie going to the even digit
TraceStepCall ==
  /\ call.fn = "TraceStep"
  /\ LET self == call.arg
         rounded(scale) ==
           LET q == self.rtt[1] * scale
               lo == q \div self.rtt[2]
               twice == 2 * (q % self.rtt[2])
           IN  IF twice > self.rtt[2] \/ (twice = self.rtt[2] /\ lo % 2 = 1)
               THEN Rat(lo + 1, scale) ELSE Rat(lo, scale)
         star == RLt(self.rtt, R(0)) \/ self.host = "*"
     IN  Return(
           [valid |-> IF TraceStepIsValid(self) THEN "True" ELSE "False",
            str |-> IF star THEN [fmt |-> "*"]
                    ELSE [fmt |-> "%s\t%.3f", host |-> self.host,
                          rtt |-> rounded(1000)],
            repr |-> IF star THEN [fmt |-> "[\"*\"]"]
                     ELSE [fmt |-> "[\"%s\", %f]", host |-> self.host,
                           rtt |-> rounded(1000000)]])

\* the probes are called on what the network may do (a plain socket never
\* raises ssl.SSLError, and a first request is never refused, only a
\* connect is); the functions of utils.py on steps with and without a host
\* and a round trip, and on the traces of at most MaxHops such steps
InitProbe ==
  /\ Quiet
  /\ pool = None
  /\ \/ \E fn \in {"Scanner.http", "Scanner.https"},
            first \in AttemptOutcomes \ {"refused"},
            retry \in AttemptOutcomes, body \in PortOutcomes \ {"refused"} :
          /\ fn = "Scanner.http" => "sslerror" \notin {first, retry}
          /\ call = Calling(fn, [first |-> first, retry |-> retry,
                                 body |-> body])
     \/ \E fn \in {"Scanner.mysql", "mysql", "http"}, o \in PortOutcomes :
          call = Calling(fn, o)
     \/ \E host \in {"10.0.0.1", "10.0.0.2", "*"},
            rtt \in {R(-1), R(0), Rat(1, 16), Rat(5, 3)} :
          call = Calling("TraceStep", TraceStep(host, rtt))
     \/ LET steps == {TraceStep(host, rtt) :
                        host \in {"10.0.0.1", "10.0.0.2", "*"},
                        rtt \in {R(-1), R(5)}}
        IN  \E a \in SeqsUpTo(steps, MaxHops), b \in SeqsUpTo(steps, MaxHops) :
              call = Calling("compareTraces", [a |-> a, b |-> b])

NextProbe ==
  \/ ScannerHttpCall
  \/ ScannerMysqlCall
  \/ MysqlCall
  \/ HttpCall
  \/ TraceStepCall
  \/ CompareTracesCall

ProbeSpec == InitProbe /\ [][NextProbe]_vars

\* ---------------------------------------------------------------- C21
\* C21: a call of Scanner.http or Scanner.https reconnects at most once and
\* tries its request at most twice, and when the first attempt fails on a
\* broken connection and the retry fails too (connection failure, timeout
\* or TLS handshake failure) the call returns None and does not raise.
C21_OneRetryThenNone ==
  (call.fn \in {"Scanner.http", "Scanner.https"} /\ call.done) =>
    /\ call.ret.reconnects <= 1
    /\ call.ret.attempts <= 2
    /\ (call.arg.first \in {"oserror", "timeout"} /\ call.arg.retry # "ok")
         => call.ret.out = Ok(None)

\* ---------------------------------------------------------------- C22
\* C22: the MySQL probe never raises: a connect or read that fails gives
\* None, a read whose version bytes cannot be decoded gives a present result
\* with the version "Unknown", and a read that can be decoded gives a
\* present result with the version read.
C22_MysqlNeverRaises ==
  (call.fn \in {"Scanner.mysql", "mysql"} /\ call.done) =>
    /\ call.ret.exc = "none"
    /\ call.arg = "refused" => call.ret.val = None
    /\ call.arg = "undecodable" =>
         (call.ret.val.type = "tuple" /\ call.ret.val.status = "Unknown")
    /\ call.arg = "ok" =>
         (call.ret.val.type = "tuple" /\ call.ret.val.status = "5.7.1")

\* ---------------------------------------------------------------- C24
\* C24: the result of an HTTP or HTTPS probe is None whenever the port
\* refused, timed out or delivered zero bytes, and present whenever a
\* response that is not empty was read.
C24_AbsentIffNothingRead ==
  /\ (call.fn = "http" /\ call.done /\ call.ret.exc = "none") =>
       (call.ret.val = None <=> call.arg \in {"refused", "empty"})
  /\ (call.fn \in {"Scanner.http", "Scanner.https"} /\ call.done
        /\ call.ret.out.exc = "none") =>
       (call.ret.out.val = None <=>
          \/ call.arg.first # "ok" /\ call.arg.retry # "ok"
          \/ call.arg.body = "empty")

\* ============================== the ThreadPool of one Collector.run alone
\* ThreadPool() starts os.cpu_count() worker threads: at least one
MaxWorkers == 2

\* a task of the pool: the function and its argument
Task(fn, arg) == [fn |-> fn, arg |-> arg]

\* the sub-probes of ports.portScan, in the order it submits and awaits them
SubProbes == << Task("http", 80), Task("http", 443), Task("mysql", 3306) >>

\* one step of a thread in the pool; nothing else of the program moves
PoolStep(new) ==
  /\ pool' = new
  /\ UNCHANGED << conf, collectors, mainPc, mainI, printed, cpc, result, pipe,
                  sent, pings, traceTask, scanTask, settled, proc, call >>

\* Collector.run, on its own thread, submits what the configuration asks
\* for: ports.portScan with apply_async, then in Collector.ping the calls
\* pinger.ping(0), ..., pinger.ping(NUMPINGS - 1) with map_async, which
\* makes one task of each while NUMPINGS is at most four times the workers
CollectorSubmit ==
  /\ pool.todo # << >>
  /\ LET new == IF Head(pool.todo) = "portScan"
                THEN << Task("portScan", 0) >>
                ELSE [k \in 1..pool.numpings |-> Task("ping", k - 1)]
     IN  PoolStep([pool EXCEPT
           !.todo = Tail(@),
           !.queue = @ \o new,
           !.st = @ @@ [t \in {new[i] : i \in DOMAIN new} |->
                          [st |-> "queued", val |-> None]]])

\* a worker thread that runs no task takes the oldest task of the queue
PoolTake ==
  /\ pool.queue # << >>
  /\ Cardinality({t \in DOMAIN pool.st :
                    pool.st[t].st \in {"run", "sent", "get"}}) < pool.workers
  /\ PoolStep([pool EXCEPT !.queue = Tail(@),
                           !.st[Head(pool.queue)].st = "run"])

\* ports.portScan, up to its first get(): the three apply_async
PortScanDispatch ==
  /\ Task("portScan", 0) \in DOMAIN pool.st
  /\ pool.st[Task("portScan", 0)].st = "run"
  /\ PoolStep([pool EXCEPT
       !.queue = @ \o SubProbes,
       !.st = [@ EXCEPT ![Task("portScan", 0)].st = "get"]
              @@ [t \in {SubProbes[i] : i \in 1..3} |->
                    [st |-> "queued", val |-> None]]])

\* a worker thread runs the sub-probe SubProbes[i] to its end
SubProbe(i) ==
  /\ SubProbes[i] \in DOMAIN pool.st
  /\ pool.st[SubProbes[i]].st = "run"
  /\ LET r == IF i = 3 THEN Mysql(pool.services[i])
              ELSE Http(pool.services[i])
     IN  PoolStep([pool EXCEPT !.st[SubProbes[i]] =
           IF r.exc = "none" THEN Returned(r.val) ELSE Raised(None)])

\* ports.portScan, from its first get(): hypertext.get(), https.get() and
\* mysqlserver.get() wait for their sub-probes in this order, without a
\* timeout, and the first of them whose sub-probe raised raises again
PortScanGet ==
  /\ Task("portScan", 0) \in DOMAIN pool.st
  /\ pool.st[Task("portScan", 0)].st = "get"
  /\ LET sub(i) == pool.st[SubProbes[i]]
         raised == \E j \in 1..3 : /\ sub(j).st = "raised"
                                   /\ \A i \in 1..(j - 1) : sub(i).st = "ret"
     IN  /\ raised \/ \A i \in 1..3 : sub(i).st = "ret"
         /\ PoolStep([pool EXCEPT !.st[Task("portScan", 0)] =
              IF raised THEN Raised(None)
              ELSE Returned(ScanResult(sub(1).val, sub(2).val, sub(3).val))])

\* a float that a ping returns, told apart from None
Float(x) == [type |-> "float", x |-> x]

\* what time.time() returns after it returned now: the clock is read a
\* bounded number of times, and each reading is later than the one before
Clock(now) == now + 1

\* (mutant) the round trip is taken from the timestamp of the waiting call
RoundTripOfCaller(timestamps, seqno, own, t) == t - timestamps[own]

\* Pinger.recv: time.time() - self.timestamps[seqno], seqno read in the reply
RoundTrip(timestamps, seqno, own, t) == t - timestamps[seqno]

\* Pinger.ping(seqno), up to its call of recv: the timestamp is stored in
\* the map that all calls share, and the request is sent, or sendto fails
\* and the call raises
PoolPingSend(seqno) ==
  /\ Task("ping", seqno) \in DOMAIN pool.st
  /\ pool.st[Task("ping", seqno)].st = "run"
  /\ \E o \in {"ok", "unreachable"} :
       LET t == Clock(pool.now)
       IN  PoolStep([pool EXCEPT
             !.now = t,
             !.timestamps = [k \in DOMAIN @ \cup {seqno} |->
                               IF k = seqno THEN t ELSE @[k]],
             !.wire = IF o = "ok" THEN Append(@, seqno) ELSE @,
             !.st[Task("ping", seqno)] =
               IF o = "ok" THEN [st |-> "sent", val |-> None]
               ELSE Raised(None)])

\* the raw socket receives an echo reply of the target: the answer to a
\* request on the wire, or a reply to somebody else's request, with a
\* sequence number of this round (0) or one that this round never sends
SocketDelivers ==
  \/ \E seqno \in {pool.wire[i] : i \in DOMAIN pool.wire} \ pool.replied :
       PoolStep([pool EXCEPT !.socket = Append(@, seqno),
                             !.replied = @ \cup {seqno}])
  \/ /\ pool.stray = "may come"
     /\ \E seqno \in {0, pool.numpings} :
          PoolStep([pool EXCEPT !.socket = Append(@, seqno),
                                !.stray = "came"])

\* Pinger.recv in the call ping(own): recvfrom times out and the call
\* returns -1, or it returns the oldest reply in the socket, whose sequence
\* number is looked up in the timestamps (KeyError when it is not there).
\* pool.log keeps, for the claims, which reply each call took and when
PoolPingRecv(own) ==
  /\ Task("ping", own) \in DOMAIN pool.st
  /\ pool.st[Task("ping", own)].st = "sent"
  /\ IF pool.socket = << >>
     THEN PoolStep([pool EXCEPT !.st[Task("ping", own)] =
                      Returned(Float(-1))])
     ELSE LET seqno == Head(pool.socket)
              t == Clock(pool.now)
          IN  IF seqno \in DOMAIN pool.timestamps
              THEN PoolStep([pool EXCEPT
                     !.now = t,
                     !.socket = Tail(@),
                     !.log = Append(@, [by |-> own, seqno |-> seqno,
                                        at |-> t]),
                     !.st[Task("ping", own)] =
                       Returned(Float(RoundTrip(pool.timestamps, seqno,
                                                own, t)))])
              ELSE PoolStep([pool EXCEPT
                     !.now = t,
                     !.socket = Tail(@),
                     !.st[Task("ping", own)] = Raised(None)])

\* a Collector.run that scans the ports, pings, or both, on a pool of one
\* worker or more, against a host whose ports do pool.services; with
\* pool.stray the target also sends one echo reply that answers the request
\* of another process
InitPool ==
  /\ Quiet
  /\ call = NoCall
  /\ \E workers \in 1..MaxWorkers,
        todo \in {<< "portScan", "ping" >>, << "ping" >>, << "portScan" >>} :
       \E numpings \in IF todo = << "portScan" >> THEN {1} ELSE 1..MaxPings,
          services \in IF todo = << "ping" >>
                       THEN {<< "refused", "refused", "refused" >>}
                       ELSE HostServices,
          stray \in IF todo = << "portScan" >> THEN {"none"}
                    ELSE {"none", "may come"} :
         pool = [workers |-> workers, numpings |-> numpings,
                 services |-> services, todo |-> todo, queue |-> << >>,
                 st |-> << >>, now |-> 0, timestamps |-> << >>,
                 wire |-> << >>, socket |-> << >>, replied |-> {},
                 stray |-> stray, log |-> << >>]

NextPool ==
  \/ CollectorSubmit
  \/ PoolTake
  \/ PortScanDispatch
  \/ \E i \in 1..3 : SubProbe(i)
  \/ PortScanGet
  \/ \E seqno \in 0..(MaxPings - 1) : PoolPingSend(seqno)
  \/ SocketDelivers
  \/ \E seqno \in 0..(MaxPings - 1) : PoolPingRecv(seqno)

PoolSpec == InitPool /\ [][NextPool]_vars

\* ---------------------------------------------------------------- C23
\* C23: in a port scan the HTTP, HTTPS and MySQL sub-probes are all started
\* before the result of any of them is awaited, and a sub-probe that blocks
\* until its timeout, or fails, does not keep the other two from running to
\* their end and from contributing their results: a scan that has ended has
\* returned a ScanResult that holds the result of each sub-probe.
C23_SubProbesIndependent ==
  LET scan == Task("portScan", 0)
  IN  scan \in DOMAIN pool.st =>
        /\ pool.st[scan].st \in {"get", "ret", "raised"} =>
             \A i \in 1..3 : SubProbes[i] \in DOMAIN pool.st
        /\ pool.st[scan].st \in {"ret", "raised"} =>
             /\ pool.st[scan].st = "ret"
             /\ \A i \in 1..3 : pool.st[SubProbes[i]].st = "ret"
             /\ pool.st[scan].val =
                  ScanResult(pool.st[SubProbes[1]].val,
                             pool.st[SubProbes[2]].val,
                             pool.st[SubProbes[3]].val)

C26_StepValidAndRendered ==
  (call.fn = "TraceStep" /\ call.done) =>
    LET self == call.arg
        valid == self.rtt[1] >= 0 /\ self.host # "*"
        near(x, eps) == RLe(RSub(x, self.rtt), eps) /\ RLe(RSub(self.rtt, x), eps)
    IN  /\ call.ret.valid = "True" <=> valid
        /\ call.ret.str.fmt = "*" <=> ~valid
        /\ call.ret.repr.fmt = "[\"*\"]" <=> ~valid
        /\ valid =>
             /\ call.ret.str.host = self.host
             /\ near(call.ret.str.rtt, Rat(1, 2000))
             /\ call.ret.repr.host = self.host
             /\ near(call.ret.repr.rtt, Rat(1, 2000000))

\* a step that names a host with a negative round trip is printed as '*'
C26_Witness ==
  /\ call.fn = "TraceStep" /\ call.done
  /\ call.arg.host = "10.0.0.1" /\ call.arg.rtt = R(-1)
  /\ call.ret.valid = "False" /\ call.ret.str.fmt = "*"

\* ---------------------------------------------------------------- C27
\* C27: under any interleaving of the concurrent calls of Pinger.ping that
\* share one socket and one map of timestamps, the round trip returned for
\* an accepted reply that carries the sequence number k is the time the
\* reply was received minus the timestamp recorded for k, whichever call
\* takes the reply and in whatever order the replies arrive.
C27_RoundTripOfReplySeqno ==
  \A i \in DOMAIN pool.log :
    LET e == pool.log[i]
    IN  /\ pool.st[Task("ping", e.by)].st = "ret"
        /\ e.seqno \in DOMAIN pool.timestamps
        /\ pool.st[Task("ping", e.by)].val =
               Float(e.at - pool.timestamps[e.seqno])

\* the call ping(0) has returned the round trip of the reply to request 1,
\* which was stamped later than request 0
C27_Witness ==
  \E i \in DOMAIN pool.log :
    /\ pool.log[i].by = 0 /\ pool.log[i].seqno = 1
    /\ pool.timestamps[0] < pool.timestamps[1]
    /\ pool.st[Task("ping", 0)] =
         Returned(Float(pool.log[i].at - pool.timestamps[1]))

\* ---------------------------------------------------------------- C28
\* C28: Pinger.ping(s) returns a round trip only when it has received an
\* echo reply of the target that carries the sequence number s; a reply of
\* the target with another sequence number does not resolve s.
C28_ResolvedByOwnSeqno ==
  \A i \in DOMAIN pool.log : pool.log[i].by = pool.log[i].seqno

\* ---------------------------------------------------------------- C29
\* C29: within one round the echo requests leave the socket in the order of
\* their sequence numbers, under every scheduling of the worker threads.
C29_SentInSeqnoOrder ==
  \A i \in DOMAIN pool.wire : \A j \in DOMAIN pool.wire :
    i < j => pool.wire[i] < pool.wire[j]

\* ---------------------------------------------------------------- C30
\* C30: for both families the echo request for seqno has the type Echo
\* Request (8 or 128), the code 0, the identifier and the sequence number as
\* two big-endian 16-bit fields followed by the payload, and in its checksum
\* field the checksum of the family taken over the whole message, header
\* with a zeroed checksum field and payload.
C30_EchoRequestLayout ==
  (call.fn = "mkPkt" /\ call.done) =>
    LET pkt == call.ret.pkt
        whole == WithChecksum(pkt, 2, 0)
        field == Unpack16(Slice(pkt, 2, 4))
        sum6 == Checksum6(whole, Zeros(15) \o << 1 >>, Zeros(15) \o << 2 >>)
    IN  /\ At(pkt, 0) = IF call.arg.family = 6 THEN 128 ELSE 8
        /\ At(pkt, 1) = 0
        /\ Unpack16(Slice(pkt, 4, 6)) = 2
        /\ Unpack16(Slice(pkt, 6, 8)) = call.arg.seqno
        /\ Slice(pkt, 8, Len(pkt)) = call.arg.payload
        /\ call.arg.family = 4 =>
             field = Checksum4(whole, call.arg.byteorder)
        /\ (call.arg.family = 6 /\ sum6.exc = "none") => field = sum6.val

\* ---------------------------------------------------------------- C31
\* C31: for every ICMPv6 message m, of even or odd length, and 16-byte
\* addresses l and r, the ICMPv6 checksum is the 16-bit one's complement of
\* the one's-complement sum of the big-endian words of
\* l ++ r ++ len(m) in 4 bytes ++ (0, 0, 0, 58) ++ m, an odd last byte
\* being the high byte of a last word; the function raises for no input.
C31_Checksum6OfAnyLength ==
  (call.fn \in {"_checksum6", "ICMPv6_checksum"} /\ call.done) =>
    LET m == call.arg.pkt
        bytes == call.arg.laddr \o call.arg.raddr \o << 0, 0 >>
                   \o << Len(m) \div 256, Len(m) % 256 >> \o << 0, 0, 0, 58 >>
                   \o m \o (IF Len(m) % 2 = 1 THEN << 0 >> ELSE << >>)
        sum == SumPairs(bytes, 0, "big")
        ones == IF sum = 0 THEN 0 ELSE ((sum - 1) % 65535) + 1
    IN  call.ret = Ok(65535 - ones)

\* ---------------------------------------------------------------- C32
\* C32: the echo-reply parser returns the big-endian 16-bit value at bytes
\* 26..27 exactly when the family is IPv4, the buffer has at least 28 bytes
\* and byte 20 is 0; it returns the value at bytes 6..7 exactly when the
\* family is IPv6, the buffer has at least 8 bytes and byte 0 is 129; in
\* every other case it returns -1.
C32_ParserOffsets ==
  (call.fn = "icmpParse" /\ call.done) =>
    LET pkt == call.arg.pkt
    IN  IF call.arg.family = 4
        THEN IF Len(pkt) >= 28 /\ pkt[21] = 0
             THEN call.ret = pkt[27] * 256 + pkt[28]
             ELSE call.ret = -1
        ELSE IF Len(pkt) >= 8 /\ pkt[1] = 129
             THEN call.ret = pkt[7] * 256 + pkt[8]
             ELSE call.ret = -1

\* an IPv4 echo reply of exactly 28 bytes gives its sequence number 258
C32_Witness ==
  /\ call.fn = "icmpParse" /\ call.done
  /\ call.arg.family = 4 /\ Len(call.arg.pkt) = 28
  /\ call.ret = 258

\* ---------------------------------------------------------------- C33
\* C33: decoding never raises: on every buffer of every length, the empty
\* one and those shorter than the offsets read included, the parsers return
\* a value, -1 for what is not a complete echo reply; so Pinger.recv skips
\* a malformed packet and keeps waiting.
C33_DecodingNeverRaises ==
  LET complete(family, pkt) ==
        IF family = 4 THEN Len(pkt) >= 28 ELSE Len(pkt) >= 8
  IN  /\ (call.fn = "icmpParse" /\ call.done) =>
           /\ call.ret >= -1
           /\ ~complete(call.arg.family, call.arg.pkt) => call.ret = -1
      /\ (call.fn = "Pinger.recv" /\ call.done
            /\ \A i \in DOMAIN call.arg.feed :
                 call.arg.feed[i].src = Addr[1] =>
                   ~complete(call.arg.family, call.arg.feed[i].data)) =>
           call.ret = Ok(R(-1))

\* a buffer that ends inside the sequence number of an IPv6 echo reply
C33_Witness ==
  /\ call.fn = "icmpParse" /\ call.done
  /\ call.arg.family = 6 /\ Len(call.arg.pkt) = 7 /\ call.arg.pkt[1] = 129
  /\ call.ret = -1

\* ---------------------------------------------------------------- C34
\* C34: a route trace appends exactly one step per TTL tried: a returned
\* trace holds as many steps as TTLs were probed, whether each probe was
\* answered, timed out or could not be sent, so that the step at index k
\* is the one of the probe with TTL k (the sentinel when that probe was
\* not sent).
C34_OneStepPerTtl ==
  (call.fn \in {"trace", "Tracer.trace"} /\ call.done
     /\ call.ret.task.st = "ret") =>
    LET steps == call.ret.task.val.steps
    IN  /\ Len(steps) = call.ret.ttl
        /\ \A k \in DOMAIN steps :
             ~call.arg.script[k].sent => steps[k] = TraceStep("*", R(-1))

\* ---------------------------------------------------------------- C35
\* C35: the test the tracer's receive loop makes on a received packet never
\* raises: every buffer, also one shorter than the offsets read, is taken
\* as this trace's response or discarded.
C35_ReceiveTestNeverRaises ==
  (call.fn \in {"isTraceResponse", "isMyIPv4TraceResponse"} /\ call.done) =>
    call.ret \in {"take", "skip"}

\* ------------------------------------------- the receive loops in time
\* receiver.settimeout(0.05) of both tracers, in milliseconds
receiverTimeout == 50

\* sock.settimeout(2) of a Pinger, in milliseconds
sockTimeout == 2000

\* the timeout of the socket a loop reads
SocketTimeout(fn) == IF fn = "Pinger.recv" THEN sockTimeout ELSE receiverTimeout

\* one packet of a schedule: it arrives gap milliseconds after the read
\* before it (after the send, for the first), before the timeout of the
\* recvfrom that waits for it runs out, and the loop's test takes it (mine)
\* or does not
Arrivals(fn) ==
  {[gap |-> g, mine |-> m] :
     g \in {SocketTimeout(fn) \div 5, (4 * SocketTimeout(fn)) \div 5},
     m \in BOOLEAN}

\* the receive loop of one TTL of traceroute.trace (fn = "trace") or of
\* Tracer.trace, or Pinger.recv after the send at timestamp: every recvfrom
\* waits the socket's timeout anew; now is the time the call is made, rtt
\* the variable Tracer.trace overwrites on every packet (it starts as the
\* send time). Gives how the loop ended, when, and the round trip it
\* measured, in milliseconds.
RECURSIVE ReceiveLoop(_, _, _, _, _)
ReceiveLoop(fn, feed, timestamp, now, rtt) ==
  IF feed = << >>
  THEN [out |-> "timeout", at |-> now + SocketTimeout(fn), rtt |-> -1]
  ELSE LET at == now + Head(feed).gap
           measured == IF fn = "Tracer.trace" THEN at - rtt
                       ELSE at - timestamp
       IN  IF Head(feed).mine
           THEN [out |-> "taken", at |-> at, rtt |-> measured]
           ELSE ReceiveLoop(fn, Tail(feed), timestamp, at, measured)

ReceiveLoopCall ==
  /\ call.fn \in {"trace", "Tracer.trace", "Pinger.recv"}
  /\ Return(ReceiveLoop(call.fn, call.arg.feed, call.arg.timestamp,
                        call.arg.timestamp, call.arg.timestamp))

\* one wait of each loop, for a probe sent at the start of the clock or one
\* second later, on every schedule of at most MaxFeed packets
InitWait ==
  /\ Quiet
  /\ pool = None
  /\ \E fn \in {"trace", "Tracer.trace", "Pinger.recv"},
        timestamp \in {0, 1000} :
       \E feed \in SeqsUpTo(Arrivals(fn), MaxFeed) :
         call = Calling(fn, [feed |-> feed, timestamp |-> timestamp])

NextWait == ReceiveLoopCall

WaitSpec == InitWait /\ [][NextWait]_vars

\* ---------------------------------------------------------------- C36
\* C36: the wait for a response ends once the timeout has elapsed since the
\* probe was sent, also when packets that do not qualify keep arriving:
\* no receive loop, of a tracer or of the Echo Prober, ends later than the
\* socket's timeout after the send.
C36_WaitEndsAtTimeout ==
  (call.fn \in {"trace", "Tracer.trace", "Pinger.recv"} /\ call.done) =>
    call.ret.at - call.arg.timestamp <= SocketTimeout(call.fn)

\* ---------------------------------------------------------------- C37
\* C37: the round trip of a step that is not the sentinel is the time the
\* qualifying response was received minus the time the probe of that TTL
\* was sent, however many packets were read and discarded before it.
C37_RttFromSendToReceipt ==
  (call.fn \in {"trace", "Tracer.trace"} /\ call.done
     /\ call.ret.out = "taken") =>
    call.ret.rtt = call.ret.at - call.arg.timestamp

\* ------------------------------------------ the sockets when a probe ends
\* a socket is "open" (created, not connected: the UDP and raw sockets of a
\* Tracer and a Pinger, a TCP socket whose connect did not succeed),
\* "connected" or "closed"
SockStates == {"open", "connected", "closed"}

\* for sock in socks: sock.shutdown(SHUT_RDWR); sock.close(), the body of
\* Scanner.__exit__ and, written out for sender and receiver, of
\* Tracer.__exit__: shutdown raises OSError on a socket that is closed
\* (EBADF) or not connected (ENOTCONN), and the sockets from that one on
\* stay as they are
RECURSIVE ShutdownAndClose(_)
ShutdownAndClose(socks) ==
  IF socks = << >> THEN [exc |-> "none", socks |-> << >>]
  ELSE IF Head(socks) # "connected" THEN [exc |-> "OSError", socks |-> socks]
  ELSE LET rest == ShutdownAndClose(Tail(socks))
       IN  [exc |-> rest.exc, socks |-> << "closed" >> \o rest.socks]

\* __exit__(exc_type, exc_value, traceback) of a Tracer or a Scanner: after
\* the sockets it reports the exception it was entered with and returns
\* None, which lets that exception go on
ExitCall ==
  /\ call.fn \in {"Tracer.__exit__", "Scanner.__exit__"}
  /\ LET r == ShutdownAndClose(call.arg.socks)
     IN  Return([socks |-> r.socks,
                 exc |-> IF r.exc = "none" THEN call.arg.exc ELSE r.exc])

\* what one pinger.ping of the map_async does within the 8 seconds of
\* results.get(8): returns a round trip, returns -1, raises, or is still in
\* its receive loop
PingEnds == {"reply", "lost", "raise", "late"}

\* Collector.ping as far as the Pinger's socket goes: results.get(8) raises
\* TimeoutError when a call has not ended, else the exception of a call
\* that raised, and pinger.sock.close() is the statement after it; with no
\* round trip at all min(rtt) raises ValueError after the close
CollectorPingCall ==
  /\ call.fn = "Collector.ping"
  /\ LET pkts == call.arg.pkts
         ends == {pkts[i] : i \in DOMAIN pkts}
     IN  Return(IF "late" \in ends
                THEN [socks |-> << "open" >>, exc |-> "TimeoutError"]
                ELSE IF "raise" \in ends
                THEN [socks |-> << "open" >>, exc |-> "Exception"]
                ELSE IF "reply" \in ends
                THEN [socks |-> << "closed" >>, exc |-> "none"]
                ELSE [socks |-> << "closed" >>, exc |-> "ValueError"])

\* the exit of a Tracer (its two sockets are never connected), of a Scanner
\* with its two sockets in any state, entered with or without an
\* exception, and Collector.ping for every ending of up to MaxPings + 1
\* pings
InitExit ==
  /\ Quiet
  /\ pool = None
  /\ \/ \E exc \in {"none", "Exception"} :
          call = Calling("Tracer.__exit__",
                         [socks |-> << "open", "open" >>, exc |-> exc])
     \/ \E exc \in {"none", "Exception"}, s0 \in SockStates, s1 \in SockStates :
          call = Calling("Scanner.__exit__",
                         [socks |-> << s0, s1 >>, exc |-> exc])
     \/ \E pkts \in SeqsUpTo(PingEnds, MaxPings + 1) :
          call = Calling("Collector.ping", [pkts |-> pkts])

NextExit ==
  \/ ExitCall
  \/ CollectorPingCall

ExitSpec == InitExit /\ [][NextExit]_vars

\* ---------------------------------------------------------------- C38
\* C38: every socket of a probe component is closed when the component
\* finishes, on every exit path: after Tracer.__exit__ and Scanner.__exit__
\* all of their sockets are closed, also when the shutdown of one of them
\* fails, and after Collector.ping the Pinger's socket is closed, also when
\* the wait for the results timed out or failed.
C38_SocketsClosedOnExit ==
  (call.fn \in {"Tracer.__exit__", "Scanner.__exit__", "Collector.ping"}
     /\ call.done) =>
    \A i \in DOMAIN call.ret.socks : call.ret.socks[i] = "closed"

\* where the threads of the pool are: what is left to submit, the queue,
\* the socket and the position of every task; every step changes it
poolAt ==
  << pool.todo, pool.queue, pool.socket,
     [t \in DOMAIN pool.st |-> pool.st[t].st] >>

\* the threads of the pool and the network under a fair scheduler: while a
\* step can be taken, one is taken
PoolFairSpec == PoolSpec /\ WF_poolAt(NextPool)

\* ---------------------------------------------------------------- C39
\* C39: portScan, once submitted to the pool, eventually ends, for every
\* pool of one worker or more and every scheduling of the tasks queued
\* with it: the sub-probes it submits to the same pool get a worker.
C39_PortScanReturns ==
  (Task("portScan", 0) \in DOMAIN pool.st)
    ~> (/\ Task("portScan", 0) \in DOMAIN pool.st
        /\ pool.st[Task("portScan", 0)].st \in {"ret", "raised"})

\* ---------------------------------------------------------------- C40
\* C40: whenever Pinger.recv takes an echo reply of the target, the reply's
\* sequence number is a key of the timestamps: no reply waits in the socket
\* of a call in recv with a sequence number that was never stamped, under
\* every interleaving of the calls and also for a reply the target sends
\* to another prober of the same host.
C40_TimestampKnown ==
  (pool.socket # << >>
     /\ \E own \in 0..(MaxPings - 1) :
          /\ Task("ping", own) \in DOMAIN pool.st
          /\ pool.st[Task("ping", own)].st = "sent") =>
    Head(pool.socket) \in DOMAIN pool.timestamps

====
